---- MODULE Spec2Model ----
(***************************************************************************)
(* A model of the rendering pipeline of SimpleApply: placeholder           *)
(* substitution (src/src/template_processor.py), the fallback and          *)
(* truncation policy (src/src/skills_matcher.py) and the translation       *)
(* lookups (src/src/translation_loader.py).                                *)
(*                                                                         *)
(* Text is a sequence of one-character strings, so that the regular        *)
(* expressions of the code are modelled by what they match.                *)
(***************************************************************************)
EXTENDS Integers, Sequences, FiniteSets, TLC

VARIABLES
    component,      \* which part of the program this behaviour exercises
    template,       \* replace_placeholders: the template argument of the first call
    replacements,   \* replace_placeholders: the dict, as its (key, value) items in insertion order
    result,         \* replace_placeholders: the outcome of the last call
    first,          \* replace_placeholders: the outcome of the first call
    calls,          \* replace_placeholders: number of calls made so far
    skills_data,    \* parse_skills_response: the decoded response, field by field
    profile_skills, \* generate_cv_replacements: user_profile.skills
    matched_skills, \* the outcome of parse_skills_response, a MatchedSkills
    resource,       \* the translations file a loader is made from
    translation_loader, \* TemplateProcessor.translation_loader: None, or the loaded dictionary
    gender,         \* user_profile.personal_info.gender
    language,       \* job_offer.language
    cv_replacements,    \* the dict generate_cv_replacements returned
    cover_replacements, \* the dict generate_cover_letter_replacements returned
    dates,          \* translate_date and translate_date_range: the arguments and the results
    titles,         \* extract_gender_form and is_gendered_title: the arguments and the results
    lookup,         \* the last call of get_translation or format_translation and its outcome
    ran,            \* the operations that have run
    database,       \* applications.db: the rows of the table and its AUTOINCREMENT counter
    db_calls,       \* the calls made on the ApplicationDatabase, in order, with what they returned
    tracker,        \* cost_tracker._global_tracker.calls: the cost of each tracked call
    processed,      \* the runs of process_job_application, in order
    files,          \* the template directory: the text of the two template files
    threads         \* the calls of process_templates in flight on the one processor

substVars == <<template, replacements, result, first, calls>>
skillsVars == <<skills_data, profile_skills, matched_skills>>
transVars == <<resource, translation_loader, gender, language>>
renderVars == <<cv_replacements, cover_replacements>>
utilVars == <<dates, titles>>
appVars == <<database, db_calls, tracker, processed, files, threads>>
vars == <<component, substVars, skillsVars, transVars, renderVars, utilVars, lookup, ran, appVars>>

----------------------------------------------------------------------------
(* Bounds of the model *)

\* a template is the concatenation of at most MaxFrags fragments
MaxFrags == 3
\* a replacement dict has at most MaxEntries items
MaxEntries == 2
\* replace_placeholders is applied at most MaxCalls times, each time to the previous output
MaxCalls == 2
\* a response holds at most MaxContribs statements that come near the length limit
MaxContribs == 2
\* the dictionary of the locale "fr" differs from a complete one in at most MaxDefects places
MaxDefects == 2
\* a job title is the concatenation of at most MaxTitleParts parts
MaxTitleParts == 3

----------------------------------------------------------------------------
(* Characters *)

\* \s of Python's re, over the characters of the model
IsSpace(c) == c \in {" ", "\n"}

\* re.IGNORECASE compares characters by their case-folded form
Lower(c) == IF c = "K" THEN "k" ELSE c

\* string.ascii_letters, over the characters of the model
IsAsciiLetter(c) == c \in {"k", "K", "n", "x", "y"}

\* string.digits without "0", over the characters of the model
IsGroupDigit(c) == c \in {"1"}

----------------------------------------------------------------------------
(* Outcomes of a call: a returned text, or a raised exception *)

Returned(text) == [raised |-> FALSE, text |-> text]
Raised == [raised |-> TRUE, text |-> <<>>]

----------------------------------------------------------------------------
(* The variables of the components a behaviour does not exercise *)

IdleSubst ==
    /\ template = <<>>
    /\ replacements = <<>>
    /\ result = Returned(<<>>)
    /\ first = Returned(<<>>)
    /\ calls = 0

NoLists ==
    [user_skills |-> <<>>, job_skills |-> <<>>, matched_skills |-> <<>>,
     relevant_technologies |-> <<>>, key_value_contributions |-> <<>>]

IdleSkills ==
    /\ skills_data = [valid_json |-> FALSE, present |-> {}, lists |-> NoLists]
    /\ profile_skills = <<>>
    /\ matched_skills = [raised |-> FALSE, value |-> NoLists]

NoCall == [op |-> "none"]

\* no date and no title is involved
NoDates == [op |-> "none"]
NoTitles == [op |-> "none"]

IdleUtil ==
    /\ dates = NoDates
    /\ titles = NoTitles

\* no translations file is involved
NoResource == [kind |-> "none", translations |-> <<>>]

\* a new database file: the table is empty and no id was ever given
EmptyDatabase == [rows |-> {}, seq |-> 0]

\* no template file is involved
NoFiles == [present |-> {}, cv |-> <<>>, cover |-> <<>>]

IdleApp ==
    /\ database = EmptyDatabase
    /\ db_calls = <<>>
    /\ tracker = <<>>
    /\ processed = <<>>
    /\ files = NoFiles
    /\ threads = [calls |-> <<>>, frames |-> <<>>]

IdleRender ==
    /\ resource = NoResource
    /\ translation_loader = [available |-> FALSE, translations |-> <<>>]
    /\ gender = "male"
    /\ language = "en"
    /\ cv_replacements = [raised |-> FALSE, map |-> <<>>]
    /\ cover_replacements = [raised |-> FALSE, map |-> <<>>]
    /\ lookup = NoCall
    /\ ran = {}

----------------------------------------------------------------------------
(* re.sub(pattern, repl, string, flags=re.IGNORECASE) for the patterns       *)
(* open \s* re.escape(key) \s* close                                       *)

\* MatchLit with the key not passed through re.escape: "." matches any character
MatchLitUnescaped(s, i, lit) ==
    /\ i >= 1
    /\ i + Len(lit) - 1 <= Len(s)
    /\ \A n \in 1..Len(lit) : lit[n] = "." \/ Lower(s[i + n - 1]) = Lower(lit[n])

\* the literal lit matches s at position i, ignoring case
MatchLit(s, i, lit) ==
    /\ i >= 1
    /\ i + Len(lit) - 1 <= Len(s)
    /\ \A n \in 1..Len(lit) : Lower(s[i + n - 1]) = Lower(lit[n])

\* the number of consecutive \s characters of s from position i on
RECURSIVE SpaceRun(_, _)
SpaceRun(s, i) ==
    IF i <= Len(s) /\ IsSpace(s[i]) THEN 1 + SpaceRun(s, i + 1) ELSE 0

\* the ways open \s* key \s* close matches s at position i: <<j, k>> are the
\* lengths the two \s* take
MatchSplits(s, i, open, key, close) ==
    IF ~MatchLit(s, i, open) THEN {}
    ELSE LET p == i + Len(open)
         IN  { jk \in (0..SpaceRun(s, p)) \X (0..Len(s)) :
                 /\ MatchLit(s, p + jk[1], key)
                 /\ jk[2] <= SpaceRun(s, p + jk[1] + Len(key))
                 /\ MatchLit(s, p + jk[1] + Len(key) + jk[2], close) }

\* the position after the match of open \s* key \s* close at position i of s,
\* 0 when there is none; both \s* are greedy, the first one first
MatchEnd(s, i, open, key, close) ==
    LET splits == MatchSplits(s, i, open, key, close)
    IN  IF splits = {} THEN 0
        ELSE LET j == CHOOSE a \in {jk[1] : jk \in splits} :
                          \A b \in {jk[1] : jk \in splits} : b <= a
                 k == CHOOSE a \in {jk[2] : jk \in {x \in splits : x[1] = j}} :
                          \A b \in {jk[2] : jk \in {x \in splits : x[1] = j}} : b <= a
             IN  i + Len(open) + j + Len(key) + k + Len(close)

\* SubFrom as re.sub(..., count=1) would do it: the first match only
SubFromFirstOnly(s, pos, open, key, close, ins) ==
    LET starts == { i \in pos..Len(s) : MatchEnd(s, i, open, key, close) > 0 }
    IN  IF starts = {} THEN SubSeq(s, pos, Len(s))
        ELSE LET i == CHOOSE a \in starts : \A b \in starts : a <= b
             IN  SubSeq(s, pos, i - 1) \o ins
                   \o SubSeq(s, MatchEnd(s, i, open, key, close), Len(s))

\* s from position pos on, every leftmost non-overlapping match replaced by ins
RECURSIVE SubFrom(_, _, _, _, _, _)
SubFrom(s, pos, open, key, close, ins) ==
    IF pos > Len(s) THEN <<>>
    ELSE LET e == MatchEnd(s, pos, open, key, close)
         IN  IF e > 0
             THEN ins \o SubFrom(s, e, open, key, close, ins)
             ELSE <<s[pos]>> \o SubFrom(s, pos + 1, open, key, close, ins)

\* the replacement template repl, its backslash escapes processed: the text
\* a match is replaced by, or Raised for an escape re rejects
RECURSIVE ExpandTemplate(_)
ExpandTemplate(repl) ==
    IF repl = <<>> THEN Returned(<<>>)
    ELSE IF repl[1] # "\\"
    THEN LET rest == ExpandTemplate(Tail(repl))
         IN  IF rest.raised THEN Raised ELSE Returned(<<repl[1]>> \o rest.text)
    ELSE IF Len(repl) = 1 THEN Raised                    \* bad escape (end of pattern)
    ELSE LET c == repl[2]
             rest == ExpandTemplate(Tail(Tail(repl)))
         IN  IF IsGroupDigit(c) THEN Raised              \* invalid group reference
             ELSE IF c = "n"
                  THEN IF rest.raised THEN Raised ELSE Returned(<<"\n">> \o rest.text)
             ELSE IF c = "\\"
                  THEN IF rest.raised THEN Raised ELSE Returned(<<"\\">> \o rest.text)
             ELSE IF IsAsciiLetter(c) THEN Raised        \* bad escape
             ELSE IF rest.raised THEN Raised ELSE Returned(<<"\\", c>> \o rest.text)

\* re.sub of one placeholder form
ReSub(open, key, close, repl, s) ==
    LET ins == ExpandTemplate(repl)
    IN  IF ins.raised THEN Raised
        ELSE Returned(SubFrom(s, 1, open, key, close, ins.text))

CommentOpen == <<"<", "!", "-", "-">>
CommentClose == <<"-", "-", ">">>

\* one iteration of the loop of replace_placeholders: the comment form, the
\* brace form and the bracket form of one key
ReplaceKey(text, key, value) ==
    LET r1 == ReSub(CommentOpen, key, CommentClose, value, text)
    IN  IF r1.raised THEN Raised
        ELSE LET r2 == ReSub(<<"{">>, key, <<"}">>, value, r1.text)
             IN  IF r2.raised THEN Raised
                 ELSE ReSub(<<"[">>, key, <<"]">>, value, r2.text)

\* replace_placeholders(template, replacements): the items applied in
\* insertion order, from item n on
RECURSIVE ReplaceFrom(_, _, _)
ReplaceFrom(text, items, n) ==
    IF n > Len(items) THEN Returned(text)
    ELSE LET r == ReplaceKey(text, items[n][1], items[n][2])
         IN  IF r.raised THEN Raised ELSE ReplaceFrom(r.text, items, n + 1)

replace_placeholders(text, items) == ReplaceFrom(text, items, 1)

----------------------------------------------------------------------------
(* Inputs of replace_placeholders *)

\* the pieces templates are made of: single characters, and one placeholder
\* in each of the three forms
Fragments ==
    { <<"{">>, <<"}">>, <<"k">>, <<".">>,
      <<"{", " ", "K", " ", "}">>,
      <<"[", "K", "]">>,
      <<"<", "!", "-", "-", " ", ".", " ", "-", "-", ">">> }

RECURSIVE Concat(_)
Concat(parts) == IF parts = <<>> THEN <<>> ELSE Head(parts) \o Concat(Tail(parts))

Templates ==
    { Concat(parts) : parts \in UNION { [1..n -> Fragments] : n \in 0..MaxFrags } }

\* two keys that differ in case only, and a key that is a regex metacharacter
Keys == { <<"k">>, <<"K">>, <<".">> }

Values ==
    { <<"x">>, <<"y">>, <<>>, <<"k">>, <<"{", ".", "}">>, <<"\\", "n">>, <<"\\", "1">> }

\* a dict: items in insertion order, no key twice
Dicts ==
    { items \in UNION { [1..n -> Keys \X Values] : n \in 0..MaxEntries } :
        \A a, b \in 1..Len(items) : a # b => items[a][1] # items[b][1] }

----------------------------------------------------------------------------
(* The substitution engine as a state machine *)

InitSubst ==
    /\ component = "substitution"
    /\ IdleApp
    /\ template \in Templates
    /\ replacements \in Dicts
    /\ result = Returned(template)
    /\ first = Returned(template)
    /\ calls = 0
    /\ IdleSkills
    /\ IdleRender
    /\ IdleUtil

\* one call of replace_placeholders on the previous output
Substitute ==
    /\ component = "substitution"
    /\ calls < MaxCalls
    /\ ~result.raised
    /\ result' = replace_placeholders(result.text, replacements)
    /\ first' = IF calls = 0 THEN result' ELSE first
    /\ calls' = calls + 1
    /\ UNCHANGED <<component, appVars, utilVars, template, replacements, skillsVars, transVars, renderVars,
                   lookup, ran>>

NextSubst == Substitute

SpecSubst == InitSubst /\ [][NextSubst]_vars

----------------------------------------------------------------------------
(* Properties of the substitution engine *)

Brackets == {"{", "}", "[", "]", "<", ">"}

PlaceholderForms ==
    { <<CommentOpen, CommentClose>>, <<(<<"{">>), (<<"}">>)>>, <<(<<"[">>), (<<"]">>)>> }

\* key occurs in text in one of the three placeholder forms
Occurs(text, key) ==
    \E form \in PlaceholderForms : \E i \in 1..Len(text) :
        MatchEnd(text, i, form[1], key, form[2]) > 0

HasChar(text, chars) == \E i \in 1..Len(text) : text[i] \in chars

\* text with every placeholder of key replaced by the characters of value as
\* they are, form after form
Verbatim(text, key, value) ==
    SubFrom(SubFrom(SubFrom(text, 1, CommentOpen, key, CommentClose, value),
                    1, <<"{">>, key, <<"}">>, value),
            1, <<"[">>, key, <<"]">>, value)

\* the items of a dict in every insertion order
Orders(items) ==
    { [i \in 1..Len(items) |-> items[p[i]]] :
        p \in { q \in [1..Len(items) -> 1..Len(items)] :
                  \A a, b \in 1..Len(items) : a # b => q[a] # q[b] } }

\* a key without the whitespace around it, case folded
RECURSIVE TrimLeft(_)
TrimLeft(text) ==
    IF text # <<>> /\ IsSpace(text[1]) THEN TrimLeft(Tail(text)) ELSE text
RECURSIVE TrimRight(_)
TrimRight(text) ==
    IF text # <<>> /\ IsSpace(text[Len(text)])
    THEN TrimRight(SubSeq(text, 1, Len(text) - 1)) ELSE text
Folded(key) ==
    LET t == TrimRight(TrimLeft(key)) IN [i \in 1..Len(t) |-> Lower(t[i])]

\* value cannot take part in a placeholder of any key of items: it has no
\* bracket character, and it has a character outside any backslash escape
\* that is no whitespace, no "!" or "-", and no character of a key
SafeValue(value, items) ==
    /\ ~HasChar(value, Brackets)
    /\ \E i \in 1..Len(value) :
         /\ ~IsSpace(value[i])
         /\ value[i] \notin {"!", "-", "\\"}
         /\ i > 1 => value[i - 1] # "\\"
         /\ \A n \in 1..Len(items) : \A m \in 1..Len(items[n][1]) :
              Lower(items[n][1][m]) # Lower(value[i])

AllValuesSafe(items) == \A n \in 1..Len(items) : SafeValue(items[n][2], items)

\* no two keys address the same placeholders, and no key has a bracket character
KeysApart(items) ==
    /\ \A a, b \in 1..Len(items) : a # b => Folded(items[a][1]) # Folded(items[b][1])
    /\ \A n \in 1..Len(items) : ~HasChar(items[n][1], Brackets)

\* C1 (the claim as stated, for a dict of one item whose key has a
\* placeholder in the template): every occurrence of the key K in comment,
\* brace or bracket form, in any letter case, is replaced by the value V, so
\* the output is the template with V in place of each of them.
C1_OccurrencesReplacedByValue ==
    (calls >= 1 /\ Len(replacements) = 1 /\ Occurs(template, replacements[1][1]))
        => first = Returned(Verbatim(template, replacements[1][1], replacements[1][2]))

\* C2 (the claim as stated, for values without a backslash): with unique keys
\* and no value that contains placeholder syntax, applying the substitution
\* twice gives the same text as applying it once.
C2_IdempotentAsStated ==
    ( /\ calls = 2
      /\ \A n \in 1..Len(replacements) :
           ~HasChar(replacements[n][2], Brackets \cup {"\\"}) )
        => result = first

\* C2 (amended): when every value is safe (no bracket character, and a
\* character of its own that is no whitespace, no "!" or "-", not part of a
\* backslash escape and not a character of any key), applying the
\* substitution twice gives the same text as applying it once.
C2_IdempotentSafeValues ==
    (calls = 2 /\ AllValuesSafe(replacements)) => result = first

\* C2 witness: a dict of safe values was applied twice and its first
\* application replaced a placeholder.
C2_Witness ==
    /\ calls = 2
    /\ replacements # <<>>
    /\ AllValuesSafe(replacements)
    /\ first # Returned(template)

\* C3 (the claim as stated, for values without a backslash): with unique
\* keys the output is the same for every insertion order of the items.
C3_OrderIndependentAsStated ==
    ( /\ calls >= 1
      /\ \A n \in 1..Len(replacements) : ~HasChar(replacements[n][2], {"\\"}) )
        => \A items \in Orders(replacements) :
               replace_placeholders(template, items) = first

\* C3 (amended): when the keys are distinct ignoring case and surrounding
\* whitespace, no key has a bracket character and every value is safe, the
\* outcome is the same for every insertion order of the items.
C3_OrderIndependentKeysApart ==
    (calls >= 1 /\ KeysApart(replacements) /\ AllValuesSafe(replacements))
        => \A items \in Orders(replacements) :
               replace_placeholders(template, items) = first

\* C3 witness: two items with keys apart and different safe values, both
\* keys having a placeholder in the template, were applied.
C3_Witness ==
    /\ calls >= 1
    /\ Len(replacements) = 2
    /\ KeysApart(replacements)
    /\ AllValuesSafe(replacements)
    /\ replacements[1][2] # replacements[2][2]
    /\ Occurs(template, replacements[1][1])
    /\ Occurs(template, replacements[2][1])
    /\ ~first.raised

\* C4 (the claim as stated): the call never raises; when no key of the dict
\* has a placeholder in the template (in particular when the dict is empty)
\* the output is the template, character for character.
C4_BestEffortNeverRaises ==
    calls >= 1 =>
        /\ ~first.raised
        /\ (\A n \in 1..Len(replacements) : ~Occurs(template, replacements[n][1]))
               => first = Returned(template)

----------------------------------------------------------------------------
(* The fallback and truncation policy: parse_skills_response                 *)
(* (skills_matcher.py), the skills text of generate_cv_replacements and      *)
(* _get_value_contributions_for_cover_letter (template_processor.py)         *)

\* program constants
ContribLimit == 350
MinTechnologies == 10
MaxTechnologies == 20
TopSkills == 20
ProfileFallbackSkills == 10
CoverAchievements == 3

RequiredFields ==
    {"user_skills", "job_skills", "matched_skills", "relevant_technologies",
     "key_value_contributions"}

\* a slice that keeps the whole list
TakeAll(seq, n) == seq

\* seq[:n]
Take(seq, n) == SubSeq(seq, 1, IF n < Len(seq) THEN n ELSE Len(seq))

\* the largest number of a non-empty finite set of numbers
Maximum(S) == CHOOSE a \in S : \A b \in S : b <= a

\* text.rfind(" "): the 0-based index of the last space, -1 when there is none
RFindSpace(text) ==
    LET spaces == { i \in 1..Len(text) : text[i] = " " }
    IN  IF spaces = {} THEN -1 ELSE Maximum(spaces) - 1

\* text.rstrip()
RStrip(text) ==
    LET kept == { i \in 1..Len(text) : ~IsSpace(text[i]) }
    IN  IF kept = {} THEN <<>> ELSE SubSeq(text, 1, Maximum(kept))

\* the body of the truncation loop for one contribution
TruncateContribution(contrib) ==
    IF Len(contrib) > ContribLimit
    THEN LET truncated == SubSeq(contrib, 1, ContribLimit)
             last_space == RFindSpace(truncated)
             cut == IF last_space > 0 THEN SubSeq(truncated, 1, last_space) ELSE truncated
         IN  RStrip(cut) \o <<".">>
    ELSE contrib

\* the three statements parse_skills_response falls back to; each text stands
\* for its sentence, which is shorter than ContribLimit
ParseDefaults == << <<"P", "1", ".">>, <<"P", "2", ".">>, <<"P", "3", ".">> >>

\* fallback_contributions of _get_value_contributions_for_cover_letter
CoverDefaults == << <<"F", "1", ".">>, <<"F", "2", ".">>, <<"F", "3", ".">> >>

\* a chain that turns to the matched skills as soon as the response has fewer
\* than MinTechnologies technologies
FallbackTechnologiesBelowMinimum(lists) ==
    IF Len(lists.relevant_technologies) >= MinTechnologies THEN lists.relevant_technologies
    ELSE IF lists.matched_skills # <<>>
         THEN Take(IF Len(lists.matched_skills) < MinTechnologies
                   THEN lists.matched_skills \o lists.job_skills
                   ELSE lists.matched_skills,
                   MaxTechnologies)
         ELSE Take(lists.job_skills, MaxTechnologies)

\* the relevant_technologies of the returned MatchedSkills
FallbackTechnologies(lists) ==
    IF lists.relevant_technologies # <<>> THEN lists.relevant_technologies
    ELSE IF lists.matched_skills # <<>>
         THEN Take(IF Len(lists.matched_skills) < MinTechnologies
                   THEN lists.matched_skills \o lists.job_skills
                   ELSE lists.matched_skills,
                   MaxTechnologies)
         ELSE Take(lists.job_skills, MaxTechnologies)

\* the key_value_contributions of the returned MatchedSkills
FallbackContributions(lists) ==
    LET contributions == IF lists.key_value_contributions # <<>>
                         THEN lists.key_value_contributions ELSE ParseDefaults
    IN  [i \in 1..Len(contributions) |-> TruncateContribution(contributions[i])]

\* parse_skills_response(response_text); data is the response: whether it is
\* JSON, the required fields it has, and the list each holds (a field that is
\* no list counts as the empty list)
parse_skills_response(data) ==
    IF ~data.valid_json THEN [raised |-> TRUE, value |-> NoLists]
    ELSE IF ~(RequiredFields \subseteq data.present) THEN [raised |-> TRUE, value |-> NoLists]
    ELSE [raised |-> FALSE,
          value |-> [data.lists EXCEPT
                       !.relevant_technologies = FallbackTechnologies(data.lists),
                       !.key_value_contributions = FallbackContributions(data.lists)]]

\* a skill that is the empty string or whitespace only
BlankSkill == <<"blank", 0>>

\* ", ".join(items) is the empty string or whitespace only; the joined text is
\* modelled by the items it lists
IsBlankText(items) == items = <<>> \/ (Len(items) = 1 /\ items[1] = BlankSkill)

\* the skills text generate_cv_replacements puts under "SKILLS_LIST" and
\* "20 relevant skills/tools"
SkillsText(matched, skills) ==
    LET top_skills == Take(matched.relevant_technologies, TopSkills)
    IN  IF IsBlankText(top_skills)
        THEN IF matched.matched_skills # <<>>
             THEN Take(matched.matched_skills, TopSkills)
             ELSE Take(skills, ProfileFallbackSkills)
        ELSE top_skills

\* _get_value_contributions_for_cover_letter(matched_skills)
ValueContributions(matched) ==
    LET top_contributions == Take(matched.key_value_contributions, CoverAchievements)
    IN  [i \in 1..CoverAchievements |->
            IF i - 1 < Len(top_contributions) THEN top_contributions[i]
            ELSE CoverDefaults[i]]

----------------------------------------------------------------------------
(* Inputs of the fallback and truncation policy *)

\* n different skills of one source
Skills(source, n) == [i \in 1..n |-> <<source, i>>]

\* n different short statements
Word(n) == [i \in 1..n |-> "a"]
Statements(n) == [i \in 1..n |-> Word(i)]

ListLengths == {0, 1, MinTechnologies - 1, MinTechnologies, MaxTechnologies + 1}

\* a statement of n characters, all "a" but for sep put at position p
LongText(n, p, sep) ==
    [i \in 1..n |->
        IF p + Len(sep) - 1 <= n /\ i >= p /\ i < p + Len(sep) THEN sep[i - p + 1] ELSE "a"]

Separators == { <<" ">>, <<"\n">>, <<".", " ">> }

\* statements of ContribLimit characters, of one more, and of ten more
LongTexts ==
    { LongText(ContribLimit + 1, p, sep) :
        p \in {1, ContribLimit - 1, ContribLimit, ContribLimit + 1},
        sep \in Separators }
    \cup { Word(ContribLimit), LongText(ContribLimit, ContribLimit - 1, <<" ">>),
            Word(ContribLimit + 10) }

\* a response with every required field, each a list
Response(user, job, matched, relevant, contributions) ==
    [valid_json |-> TRUE,
     present |-> RequiredFields,
     lists |-> [user_skills |-> user, job_skills |-> job, matched_skills |-> matched,
                relevant_technologies |-> relevant,
                key_value_contributions |-> contributions]]

\* responses that exercise the fallback chains
FallbackResponses ==
    { Response(Skills("user", 1), Skills("job", j), Skills("matched", m), relevant,
               Statements(c)) :
        j \in ListLengths, m \in ListLengths,
        relevant \in { Skills("relevant", r) : r \in {0, 1, MaxTechnologies + 1} }
                       \cup { <<BlankSkill>> },
        c \in 0..(CoverAchievements + 1) }

\* responses with statements near the length limit
LongResponses ==
    { Response(Skills("user", 1), Skills("job", 1), Skills("matched", 1),
               Skills("relevant", 1), contributions) :
        contributions \in UNION { [1..n -> LongTexts] : n \in 1..MaxContribs } }

\* responses that are no JSON, or lack a required field
BrokenResponses ==
    { [valid_json |-> FALSE, present |-> {}, lists |-> NoLists] }
    \cup { [valid_json |-> TRUE, present |-> RequiredFields \ {f}, lists |-> NoLists] :
             f \in RequiredFields }

----------------------------------------------------------------------------
(* The translation resolver: TranslationLoader (translation_loader.py)       *)

\* A translated string is a sequence of parts: literal text, and named slots
\* of str.format ("{job_title}")
Lit(text) == [slot |-> FALSE, text |-> text]
Slot(name) == [slot |-> TRUE, text |-> <<name>>]

Found(value) == [raised |-> FALSE, missing |-> "", value |-> value]
TranslationError(missing) == [raised |-> TRUE, missing |-> missing, value |-> <<>>]

\* a get_translation that hands out the empty string for a key it does not have
get_translation_or_empty(translations, lang, section, key) ==
    IF lang \notin DOMAIN translations THEN TranslationError("language")
    ELSE IF section \notin DOMAIN translations[lang] THEN TranslationError("section")
    ELSE IF key \notin DOMAIN translations[lang][section] THEN Found(<<>>)
    ELSE Found(translations[lang][section][key])

\* TranslationLoader.get_translation(language, section, key)
get_translation(translations, lang, section, key) ==
    IF lang \notin DOMAIN translations THEN TranslationError("language")
    ELSE IF section \notin DOMAIN translations[lang] THEN TranslationError("section")
    ELSE IF key \notin DOMAIN translations[lang][section] THEN TranslationError("key")
    ELSE Found(translations[lang][section][key])

\* translation.format(**kwargs): every slot replaced by its variable
Interpolate(value, kwargs) ==
    Concat([i \in 1..Len(value) |->
              IF value[i].slot THEN kwargs[value[i].text[1]] ELSE <<value[i]>>])

\* a format_translation that leaves a slot without variable as it is
format_translation_lenient(translations, lang, section, key, kwargs) ==
    LET translation == get_translation(translations, lang, section, key)
    IN  IF translation.raised THEN translation
        ELSE Found(Concat([i \in 1..Len(translation.value) |->
                 IF translation.value[i].slot
                    /\ translation.value[i].text[1] \in DOMAIN kwargs
                 THEN kwargs[translation.value[i].text[1]]
                 ELSE <<translation.value[i]>>]))

\* TranslationLoader.format_translation(language, section, key, **kwargs): the
\* KeyError of a slot without variable becomes a TranslationError
format_translation(translations, lang, section, key, kwargs) ==
    LET translation == get_translation(translations, lang, section, key)
    IN  IF translation.raised THEN translation
        ELSE IF \E i \in 1..Len(translation.value) :
                    /\ translation.value[i].slot
                    /\ translation.value[i].text[1] \notin DOMAIN kwargs
             THEN TranslationError("placeholder")
             ELSE Found(Interpolate(translation.value, kwargs))

----------------------------------------------------------------------------
(* The date formatter (date_translator.py)                                  *)
(* A date string is a sequence of characters; a formatted date is a         *)
(* sequence of pieces, each a character or the name of a month.             *)

DigitChars == <<"0", "1", "2", "3", "4", "5", "6", "7", "8", "9">>
IsDigit(c) == \E i \in 1..10 : DigitChars[i] = c
DigitValue(c) == (CHOOSE i \in 1..10 : DigitChars[i] = c) - 1

\* int() of a run of digits
RECURSIVE Number(_)
Number(digits) ==
    IF digits = <<>> THEN 0
    ELSE 10 * Number(SubSeq(digits, 1, Len(digits) - 1)) + DigitValue(digits[Len(digits)])

\* str() of a natural number
RECURSIVE Decimal(_)
Decimal(n) ==
    IF n < 10 THEN <<DigitChars[n + 1]>>
    ELSE Decimal(n \div 10) \o <<DigitChars[(n % 10) + 1]>>

\* MONTH_TRANSLATIONS
MONTH_TRANSLATIONS ==
    [en |-> <<"January", "February", "March", "April", "May", "June", "July", "August",
              "September", "October", "November", "December">>,
     fr |-> <<"Janvier", "Février", "Mars", "Avril", "Mai", "Juin", "Juillet", "Août",
              "Septembre", "Octobre", "Novembre", "Décembre">>,
     es |-> <<"Enero", "Febrero", "Marzo", "Abril", "Mayo", "Junio", "Julio", "Agosto",
              "Septiembre", "Octubre", "Noviembre", "Diciembre">>]

MonthsInYear == 12
FirstYear == 1
February == 2

IsLeap(year) == (year % 4 = 0 /\ year % 100 # 0) \/ year % 400 = 0

\* a calendar in which every month has 31 days
DaysInMonthAlways31(year, month) == 31

\* the number of days of the month, as datetime checks it
DaysInMonth(year, month) ==
    IF month = February THEN (IF IsLeap(year) THEN 29 ELSE 28)
    ELSE IF month \in {4, 6, 9, 11} THEN 30
    ELSE 31

\* the directive %m of strptime: 1[0-2]|0[1-9]|[1-9]
MatchesMonth(part) ==
    \/ Len(part) = 1 /\ IsDigit(part[1]) /\ part[1] # "0"
    \/ Len(part) = 2 /\ part[1] = "1" /\ part[2] \in {"0", "1", "2"}
    \/ Len(part) = 2 /\ part[1] = "0" /\ IsDigit(part[2]) /\ part[2] # "0"

\* the directive %d of strptime: 3[0-1]|[1-2]\d|0[1-9]|[1-9]| [1-9]
MatchesDay(part) ==
    \/ Len(part) = 1 /\ IsDigit(part[1]) /\ part[1] # "0"
    \/ Len(part) = 2 /\ part[1] = "3" /\ part[2] \in {"0", "1"}
    \/ Len(part) = 2 /\ part[1] \in {"1", "2"} /\ IsDigit(part[2])
    \/ Len(part) = 2 /\ part[1] \in {"0", " "} /\ IsDigit(part[2]) /\ part[2] # "0"

NoDate == [ok |-> FALSE, year |-> 0, month |-> 0, day |-> 0]

\* datetime.strptime(iso_date, "%Y-%m-%d"): four digits, "-", a month, "-", a
\* day, and nothing else; the three numbers must name a date (ok FALSE: it
\* raises ValueError)
Strptime(iso_date) ==
    LET dashes == { i \in 1..Len(iso_date) : iso_date[i] = "-" }
    IN  IF Cardinality(dashes) # 2 \/ 5 \notin dashes THEN NoDate
        ELSE LET second == CHOOSE i \in dashes : i # 5
                 year_part == SubSeq(iso_date, 1, 4)
                 month_part == SubSeq(iso_date, 6, second - 1)
                 day_part == SubSeq(iso_date, second + 1, Len(iso_date))
                 day_digits == IF day_part # <<>> /\ day_part[1] = " "
                               THEN Tail(day_part) ELSE day_part
             IN  IF /\ \A i \in 1..4 : IsDigit(year_part[i])
                    /\ MatchesMonth(month_part)
                    /\ MatchesDay(day_part)
                    /\ Number(year_part) >= FirstYear
                    /\ Number(day_digits) <= DaysInMonth(Number(year_part), Number(month_part))
                 THEN [ok |-> TRUE, year |-> Number(year_part),
                       month |-> Number(month_part), day |-> Number(day_digits)]
                 ELSE NoDate

\* months[date_obj.month]: the entry after the one of the month
MonthNameAfter(lang, month) ==
    IF month + 1 \in 1..MonthsInYear THEN MONTH_TRANSLATIONS[lang][month + 1] ELSE "IndexError"

\* months[date_obj.month - 1]
MonthName(lang, month) == MONTH_TRANSLATIONS[lang][month]

\* translate_date(iso_date, language, include_day)
translate_date(iso_date, lang, include_day) ==
    LET date_obj == Strptime(iso_date)
        l == IF lang \in DOMAIN MONTH_TRANSLATIONS THEN lang ELSE "en"
    IN  IF ~date_obj.ok THEN iso_date
        ELSE LET month_name == <<MonthName(l, date_obj.month)>>
                 year == Decimal(date_obj.year)
                 day == Decimal(date_obj.day)
             IN  IF ~include_day THEN month_name \o <<" ">> \o year
                 ELSE IF l = "en" THEN month_name \o <<" ">> \o day \o <<",", " ">> \o year
                 ELSE IF l = "fr" THEN day \o <<" ">> \o month_name \o <<" ">> \o year
                 ELSE day \o <<" ", "d", "e", " ">> \o month_name
                          \o <<" ", "d", "e", " ">> \o year

\* the character U+2013, as one piece
EnDash == "en dash"

\* a range joined by a hyphen
translate_date_range_hyphen(start_date, end_date, lang) ==
    translate_date(start_date, lang, FALSE) \o <<" ", "-", " ">>
        \o translate_date(end_date, lang, FALSE)

\* translate_date_range(start_date, end_date, language)
translate_date_range(start_date, end_date, lang) ==
    translate_date(start_date, lang, FALSE) \o <<" ", EnDash, " ">>
        \o translate_date(end_date, lang, FALSE)

----------------------------------------------------------------------------
(* The translated entries of the replacement dicts (template_processor.py)  *)

\* the fields of the job offer, as texts
JobTitle == <<Lit(<<"job_title">>)>>
CompanyName == <<Lit(<<"company_name">>)>>

\* gender.lower(), over the gender values of the model
GenderLower(g) == IF g = "MALE" THEN "male" ELSE g

\* gender_suffix: "_male", "_female" or nothing
GenderSuffix(g) ==
    IF GenderLower(g) \in {"male", "female"} THEN "_" \o GenderLower(g) ELSE ""

\* _generate_personalized_content: the defaults of the language, English for
\* a language without defaults
Personalized(lang) ==
    LET l == IF lang \in {"en", "fr", "es"} THEN lang ELSE "en"
    IN  [company_excitement |-> <<Lit(<<"company_excitement", l>>)>> \o CompanyName,
         specific_goal |-> <<Lit(<<"specific_goal", l>>)>>]

\* a gendered lookup that asks for the ungendered key first
format_ungendered_first(translations, lang, section, key, suffix, kwargs) ==
    LET generic == format_translation(translations, lang, section, key, kwargs)
    IN  IF generic.raised
        THEN format_translation(translations, lang, section, key \o suffix, kwargs)
        ELSE generic

\* try: format_translation(key + suffix) except TranslationError:
\* format_translation(key)
format_gendered(translations, lang, section, key, suffix, kwargs) ==
    LET specific == format_translation(translations, lang, section, key \o suffix, kwargs)
    IN  IF specific.raised
        THEN format_translation(translations, lang, section, key, kwargs)
        ELSE specific

\* try: get_translation(key + suffix) except TranslationError: get_translation(key)
get_gendered(translations, lang, section, key, suffix) ==
    LET specific == get_translation(translations, lang, section, key \o suffix)
    IN  IF specific.raised
        THEN get_translation(translations, lang, section, key)
        ELSE specific

\* summary_text of generate_cv_replacements: the job title unless the loader
\* gives a summary
CvSummary(loader, g, lang) ==
    IF ~loader.available THEN JobTitle
    ELSE LET summary == format_gendered(loader.translations, lang, "cv", "summary_text",
                                        GenderSuffix(g), "job_title" :> JobTitle)
         IN  IF summary.raised THEN JobTitle ELSE summary.value

\* the fields of the job offer and of the selected projects, each a text of
\* one piece
Location == <<Lit(<<"location">>)>>
Project(name) ==
    [title |-> <<Lit(<<name, "title">>)>>,
     type |-> <<Lit(<<name, "type">>)>>,
     description |-> <<Lit(<<name, "description">>)>>]
SelectedProjects == [project1 |-> Project("project1"), project2 |-> Project("project2")]

\* date.today().strftime("%d/%m/%Y")
Today == <<Lit(<<"today">>)>>

\* dict.get(key, default)
Get(dict, key, default) == IF key \in DOMAIN dict THEN dict[key] ELSE default

\* a default string of the code
Default(text) == <<Lit(<<text>>)>>

\* TranslationLoader.get_section_translations(language, section)
get_section_translations(translations, lang, section) ==
    IF lang \notin DOMAIN translations THEN TranslationError("language")
    ELSE IF section \notin DOMAIN translations[lang] THEN TranslationError("section")
    ELSE Found(translations[lang][section])

\* TranslationLoader.get_project_translation(language, project_title): the
\* translation, None (found FALSE) or a TranslationError
get_project_translation(translations, lang, project_title) ==
    IF lang \notin DOMAIN translations
    THEN [raised |-> TRUE, found |-> FALSE, value |-> <<>>]
    ELSE IF "projects" \notin DOMAIN translations[lang]
            \/ project_title \notin DOMAIN translations[lang]["projects"]
    THEN [raised |-> FALSE, found |-> FALSE, value |-> <<>>]
    ELSE [raised |-> FALSE, found |-> TRUE, value |-> translations[lang]["projects"][project_title]]

\* _apply_project_translations(selected_projects, target_language)
apply_project_translations(loader, selected_projects, lang) ==
    IF lang = "en" \/ ~loader.available THEN selected_projects
    ELSE LET p1 == get_project_translation(loader.translations, lang,
                                          selected_projects.project1.title)
             p2 == get_project_translation(loader.translations, lang,
                                          selected_projects.project2.title)
             translated(project, p) ==
                 IF ~p.found THEN project
                 ELSE [project EXCEPT
                         !.title = Get(p.value, "title", project.title),
                         !.description = Get(p.value, "description", project.description)]
         IN  IF p1.raised \/ p2.raised THEN selected_projects
             ELSE [project1 |-> translated(selected_projects.project1, p1),
                   project2 |-> translated(selected_projects.project2, p2)]

\* the dates generate_cv_replacements formats
Date20250501 == <<"2", "0", "2", "5", "-", "0", "5", "-", "0", "1">>
Date20230101 == <<"2", "0", "2", "3", "-", "0", "1", "-", "0", "1">>
Date20251231 == <<"2", "0", "2", "5", "-", "1", "2", "-", "3", "1">>
Date20190101 == <<"2", "0", "1", "9", "-", "0", "1", "-", "0", "1">>
Date20230630 == <<"2", "0", "2", "3", "-", "0", "6", "-", "3", "0">>
Date20230501 == <<"2", "0", "2", "3", "-", "0", "5", "-", "0", "1">>
Date20230930 == <<"2", "0", "2", "3", "-", "0", "9", "-", "3", "0">>

\* the entries the second try block of generate_cv_replacements adds:
\* education, experience, hobbies, languages, labels and dates. The first
\* get_section_translations raises for a language or a section that is not
\* there, and then nothing is added. A joined list is modelled by its items.
CvLocalized(loader, g, lang) ==
    IF ~loader.available THEN <<>>
    ELSE LET section == get_section_translations(loader.translations, lang, "cv")
         IN  IF section.raised THEN <<>>
             ELSE
         LET cv == section.value
             education_trans == Get(cv, "education", <<>>)
             experience_trans == Get(loader.translations[lang], "experience", <<>>)
             gendered == GenderLower(g) \in {"male", "female"}
             engie_data == Get(experience_trans, "engie", <<>>)
             engie_achievements == Get(engie_data, "achievements", <<>>)
             ing_data == Get(experience_trans, "ing", <<>>)
             ing_achievements == Get(ing_data, "achievements", <<>>)
             role(data) ==
                 IF gendered
                 THEN Get(data, "role_" \o GenderLower(g), Get(data, "role", <<>>))
                 ELSE Get(data, "role", <<>>)
             hobbies_trans == Get(cv, "hobbies", <<>>)
             languages_desc_trans == Get(cv, "languages_descriptions", <<>>)
         IN  ( "BOOTCAMP42_DESCRIPTION" :> Get(education_trans, "bootcamp_description", <<>>)
               @@ "SCHOOL42_TRAINING" :> Get(education_trans, "school_42_training", <<>>)
               @@ "UNIVERSITY_DEGREE" :> Get(education_trans, "university_degree", <<>>)
               @@ "ENGIE_ROLE" :> role(engie_data)
               @@ "ENGIE_ACHIEVEMENT_1" :> Get(engie_achievements, "collaboration", <<>>)
               @@ "ENGIE_ACHIEVEMENT_2" :> Get(engie_achievements, "scraping", <<>>)
               @@ "ENGIE_ACHIEVEMENT_3" :> Get(engie_achievements, "energy_solutions", <<>>)
               @@ "ENGIE_ACHIEVEMENT_4" :> Get(engie_achievements, "docker", <<>>)
               @@ "ING_ROLE" :> role(ing_data)
               @@ "ING_ACHIEVEMENT_1" :> Get(ing_achievements, "analytics", <<>>)
               @@ "ING_ACHIEVEMENT_2" :> Get(ing_achievements, "vba_automation", <<>>)
               @@ "HOBBIES_LIST" :>
                    Get(hobbies_trans, "blockchain", Default("Blockchain technology"))
                    \o Get(hobbies_trans, "ai", Default("Artificial Intelligence"))
                    \o Get(hobbies_trans, "football", Default("Football"))
                    \o Get(hobbies_trans, "personal_dev", Default("Personal Development"))
               @@ "LANGUAGES_LIST" :>
                    Get(languages_desc_trans, "french_native", Default("French (native)"))
                    \o Get(languages_desc_trans, "english_fluent", Default("English (fluent)"))
                    \o Get(languages_desc_trans, "spanish_fluent", Default("Spanish (fluent)"))
               @@ "RELEVANT_SKILLS_LABEL" :>
                    Get(cv, "relevant_skills_label", Default("Relevant Skills"))
               @@ "MAIN_CLASSES_LABEL" :> Get(cv, "main_classes_label", Default("Main classes"))
               @@ "LANGUAGES_LABEL" :> Get(cv, "languages_label", Default("Languages"))
               @@ "HOBBIES_LABEL" :> Get(cv, "hobbies_label", Default("Hobbies"))
               @@ "SKILLS_LABEL" :> Get(cv, "skills_label", Default("Skills & Tools"))
               @@ "AGE_PHRASE" :> Get(cv, "age_phrase", Default("years old"))
               @@ "BOOTCAMP42_DATE" :> translate_date(Date20250501, lang, FALSE)
               @@ "SCHOOL42_DATE" :> translate_date_range(Date20230101, Date20251231, lang)
               @@ "UNIVERSITY_DATE" :> translate_date_range(Date20190101, Date20251231, lang)
               @@ "ENGIE_DATE" :> translate_date_range(Date20230101, Date20230630, lang)
               @@ "ING_DATE" :> translate_date_range(Date20230501, Date20230930, lang) )

\* generate_cv_replacements(..., translated_projects): the entries of the
\* summary, the projects and the skills, and the localized entries
generate_cv_replacements(matched, skills, loader, g, lang, projects_to_use) ==
    CvLocalized(loader, g, lang)
    @@ ( "CV_SUMMARY" :> CvSummary(loader, g, lang)
         @@ "PROJECT 1 TITLE" :> projects_to_use.project1.title
         @@ "PROJECT 1 TYPE" :> projects_to_use.project1.type
         @@ "PROJECT 1 DESCRIPTION" :> projects_to_use.project1.description
         @@ "PROJECT 2 TITLE" :> projects_to_use.project2.title
         @@ "PROJECT 2 TYPE" :> projects_to_use.project2.type
         @@ "PROJECT 2 DESCRIPTION" :> projects_to_use.project2.description
         @@ "20 relevant skills/tools" :> SkillsText(matched, skills)
         @@ "SKILLS_LIST" :> SkillsText(matched, skills) )

\* generate_cv_replacements as process_templates calls it: with the projects
\* of _apply_project_translations, which are the selected ones for English
CvReplacements(matched, skills, loader, g, lang) ==
    generate_cv_replacements(matched, skills, loader, g, lang,
        apply_project_translations(loader, SelectedProjects, lang))

\* the lookups of generate_cover_letter_replacements, in the order the code
\* makes them: the key each one fills, and its outcome
CoverLookups(translations, g, lang) ==
    LET personalized == Personalized(lang)
        suffix == GenderSuffix(g)
    IN  << <<"INTRO_PARAGRAPH",
             format_gendered(translations, lang, "cover_letter", "intro_paragraph", suffix,
                 "job_title" :> JobTitle @@ "company_name" :> CompanyName)>>,
           <<"EXPERIENCE_PARAGRAPH",
             get_translation(translations, lang, "cover_letter", "experience_paragraph")>>,
           <<"KEY_AREAS_HEADER",
             get_translation(translations, lang, "cover_letter", "key_areas_header")>>,
           <<"CLOSING_PARAGRAPH_1",
             format_gendered(translations, lang, "cover_letter", "closing_paragraph_1", suffix,
                 "company_name" :> CompanyName
                 @@ "company_excitement" :> personalized.company_excitement
                 @@ "specific_goal" :> personalized.specific_goal)>>,
           <<"CLOSING_PARAGRAPH_2",
             format_translation(translations, lang, "cover_letter", "closing_paragraph_2",
                 "company_name" :> CompanyName)>>,
           <<"GREETING",
             get_gendered(translations, lang, "cover_letter", "greeting", suffix)>>,
           <<"SIGN_OFF",
             get_translation(translations, lang, "cover_letter", "sign_off")>> >>

\* the entries the lookups from the n-th on add: the first TranslationError
\* ends the try block, what was added before stays
RECURSIVE CoverTranslated(_, _)
CoverTranslated(lookups, n) ==
    IF n > Len(lookups) \/ lookups[n][2].raised THEN <<>>
    ELSE (lookups[n][1] :> lookups[n][2].value) @@ CoverTranslated(lookups, n + 1)

\* generate_cover_letter_replacements: the entries of the job offer, the
\* achievements, the personalized content and the translated entries
CoverReplacements(matched, loader, g, lang) ==
    LET achievements == ValueContributions(matched)
        personalized == Personalized(lang)
        fixed == ( "Date" :> Today
                   @@ "Company Name" :> CompanyName
                   @@ "Company Address" :> Location
                   @@ "City, State ZIP" :> Location
                   @@ "Job Title" :> JobTitle
                   @@ "Achievement 1" :> achievements[1]
                   @@ "Achievement 2" :> achievements[2]
                   @@ "Achievement 3" :> achievements[3]
                   @@ "specific company detail or mission" :>
                        personalized.company_excitement
                   @@ "specific responsibility or project mentioned in job posting" :>
                        personalized.specific_goal )
    IN  IF loader.available
        THEN CoverTranslated(CoverLookups(loader.translations, g, lang), 1) @@ fixed
        ELSE fixed

----------------------------------------------------------------------------
(* Inputs of the translation resolver *)

\* required_cv_keys and required_cl_keys of validate_structure
RequiredCvKeys ==
    {"summary_header", "education_header", "projects_header", "experience_header",
     "skills_header"}
RequiredCoverKeys ==
    {"greeting", "intro_paragraph", "experience_paragraph", "key_areas_header",
     "closing_paragraph_1", "closing_paragraph_2", "sign_off"}

\* the strings of the section "cv" the dictionaries of the model hold: the
\* required headers, the summaries and one label
CvKeys ==
    RequiredCvKeys
      \cup {"summary_text", "summary_text_male", "summary_text_female", "skills_label"}

CoverKeys ==
    {"greeting", "greeting_male", "greeting_female",
     "intro_paragraph", "intro_paragraph_male", "intro_paragraph_female",
     "experience_paragraph", "key_areas_header",
     "closing_paragraph_1", "closing_paragraph_1_male", "closing_paragraph_1_female",
     "closing_paragraph_2", "sign_off"}

SectionKeys(section) == IF section = "cv" THEN CvKeys ELSE CoverKeys

\* the slots the string of a key has: the variables its caller passes
SlotsOf(key) ==
    IF key \in {"summary_text", "summary_text_male", "summary_text_female"}
    THEN <<"job_title">>
    ELSE IF key \in {"intro_paragraph", "intro_paragraph_male", "intro_paragraph_female"}
    THEN <<"job_title", "company_name">>
    ELSE IF key \in {"closing_paragraph_1", "closing_paragraph_1_male",
                     "closing_paragraph_1_female"}
    THEN <<"company_name", "company_excitement", "specific_goal">>
    ELSE IF key = "closing_paragraph_2" THEN <<"company_name">>
    ELSE <<>>

\* the string of a key in a complete dictionary
Entry(lang, section, key) ==
    <<Lit(<<lang, section, key>>)>> \o [i \in 1..Len(SlotsOf(key)) |-> Slot(SlotsOf(key)[i])]

\* the ways a dictionary falls short: a key or a section is not there, or a
\* string has a slot its caller passes no variable for
Defects ==
    { [kind |-> "no_key", section |-> sec, key |-> k] :
        sec \in {"cv"}, k \in CvKeys }
    \cup { [kind |-> "no_key", section |-> sec, key |-> k] :
        sec \in {"cover_letter"}, k \in CoverKeys }
    \cup { [kind |-> "unbound_slot", section |-> sec, key |-> k] :
        sec \in {"cv"}, k \in {c \in CvKeys : SlotsOf(c) # <<>>} }
    \cup { [kind |-> "unbound_slot", section |-> sec, key |-> k] :
        sec \in {"cover_letter"}, k \in {c \in CoverKeys : SlotsOf(c) # <<>>} }
    \cup { [kind |-> "no_section", section |-> sec, key |-> ""] :
        sec \in {"cv", "cover_letter"} }
    \cup { [kind |-> "no_language", section |-> "", key |-> ""] }

RECURSIVE DefectSets(_)
DefectSets(n) ==
    IF n = 0 THEN {{}}
    ELSE DefectSets(n - 1)
           \cup { D \cup {d} : D \in DefectSets(n - 1), d \in Defects }

SectionDict(lang, section, defects) ==
    [ k \in { c \in SectionKeys(section) :
                [kind |-> "no_key", section |-> section, key |-> c] \notin defects } |->
        IF [kind |-> "unbound_slot", section |-> section, key |-> k] \in defects
        THEN Entry(lang, section, k) \o <<Slot("unbound")>>
        ELSE Entry(lang, section, k) ]

LocaleDict(lang, defects) ==
    [ sec \in { c \in {"cv", "cover_letter"} :
                  [kind |-> "no_section", section |-> c, key |-> ""] \notin defects } |->
        SectionDict(lang, sec, defects) ]

\* the section "projects" of a locale: the translation of the first project
ProjectsDict(lang) ==
    [ project_title \in {Project("project1").title} |->
        [title |-> <<Lit(<<lang, "projects", "title">>)>>,
         description |-> <<Lit(<<lang, "projects", "description">>)>>] ]

\* a dictionary: "en" complete, "es" complete and with translated projects,
\* "fr" with the defects, or not there
Translations(defects) ==
    [ lang \in { l \in {"en", "fr", "es"} :
                  l = "fr" => [kind |-> "no_language", section |-> "", key |-> ""]
                                \notin defects } |->
        IF lang = "fr" THEN LocaleDict(lang, defects)
        ELSE IF lang = "es" THEN LocaleDict(lang, {}) @@ ("projects" :> ProjectsDict(lang))
        ELSE LocaleDict(lang, {}) ]

\* a TranslationLoader made by its constructor, which validates nothing
Loaders ==
    { [available |-> TRUE, translations |-> Translations(D)] : D \in DefectSets(MaxDefects) }

NoLoader == [available |-> FALSE, translations |-> <<>>]

\* a validation that looks at the sections only
validate_sections(translations) ==
    \A lang \in DOMAIN translations :
        {"cv", "cover_letter"} \subseteq DOMAIN translations[lang]

\* validate_structure: every language has both sections and their required
\* keys (FALSE: it raises TranslationError)
validate_structure(translations) ==
    \A lang \in DOMAIN translations :
        /\ {"cv", "cover_letter"} \subseteq DOMAIN translations[lang]
        /\ RequiredCvKeys \subseteq DOMAIN translations[lang]["cv"]
        /\ RequiredCoverKeys \subseteq DOMAIN translations[lang]["cover_letter"]

\* TemplateProcessor.__init__: the loader of create_translation_loader, which
\* validates the dictionary, and no loader when that raises
ProcessorLoader(translations) ==
    IF validate_structure(translations)
    THEN [available |-> TRUE, translations |-> translations]
    ELSE NoLoader

Genders == {"male", "female", "MALE", "other"}
Languages == {"en", "fr", "es", "xx"}

\* the translations file: not there, not readable, no UTF-8, no JSON, JSON
\* that is no object, or a dictionary
JsonResource(translations) == [kind |-> "json", translations |-> translations]

Resources ==
    { [kind |-> k, translations |-> <<>>] :
        k \in {"missing", "unreadable", "bad_encoding", "unparsable", "not_object"} }
    \cup { JsonResource(Translations(D)) : D \in DefectSets(MaxDefects) }

Created(loader) == [raised |-> FALSE, error |-> "", loader |-> loader]
Failed(error) == [raised |-> TRUE, error |-> error, loader |-> NoLoader]

\* TranslationLoader.__init__ and _load_translations: the file is read and
\* decoded, and the languages are the keys of the decoded object
LoadTranslations(file) ==
    IF file.kind \in {"missing", "unreadable", "unparsable"} THEN Failed("TranslationError")
    ELSE IF file.kind = "bad_encoding" THEN Failed("UnicodeDecodeError")
    ELSE IF file.kind = "not_object" THEN Failed("AttributeError")
    ELSE Created([available |-> TRUE, translations |-> file.translations])

\* create_translation_loader: the loader, validated
create_translation_loader(file) ==
    LET loader == LoadTranslations(file)
    IN  IF loader.raised THEN loader
        ELSE IF validate_structure(loader.loader.translations) THEN loader
        ELSE Failed("TranslationError")

\* a constructor of TemplateProcessor that lets every error of the loader out
TemplateProcessorStrict(file) == create_translation_loader(file)

\* TemplateProcessor.__init__: a TranslationError of the loader is logged and
\* the processor works without loader
TemplateProcessor(file) ==
    LET loader == create_translation_loader(file)
    IN  IF loader.raised /\ loader.error = "TranslationError" THEN Created(NoLoader)
        ELSE loader

\* the response the renders of the translation behaviours work on
PlainResponse ==
    Response(Skills("user", 1), Skills("job", 1), Skills("matched", 1),
             Skills("relevant", 1), Statements(1))

----------------------------------------------------------------------------
(* The operations as a state machine *)

\* a render returns its dict: it lets no TranslationError out
RenderReturned(map) == [raised |-> FALSE, map |-> map]
NoDict == RenderReturned(<<>>)

\* the fallback and truncation policy: a response, and a render of it
InitSkills ==
    /\ component = "skills"
    /\ IdleApp
    /\ \/ /\ skills_data \in FallbackResponses \cup BrokenResponses
          /\ profile_skills \in
               { Skills("profile", n) : n \in {0, 1, ProfileFallbackSkills + 1} }
       \/ /\ skills_data \in LongResponses
          /\ profile_skills = Skills("profile", 1)
    /\ matched_skills = [raised |-> FALSE, value |-> NoLists]
    /\ resource = JsonResource(Translations({}))
    /\ translation_loader = ProcessorLoader(Translations({}))
    /\ gender = "male"
    /\ language = "en"
    /\ cv_replacements = NoDict
    /\ cover_replacements = NoDict
    /\ lookup = NoCall
    /\ ran = {}
    /\ IdleSubst
    /\ IdleUtil

\* the translation resolver: renders of a parsed response
InitRender ==
    /\ component = "render"
    /\ IdleApp
    /\ skills_data = PlainResponse
    /\ profile_skills = Skills("profile", 1)
    /\ matched_skills = parse_skills_response(PlainResponse)
    /\ resource \in { JsonResource(Translations(D)) : D \in DefectSets(MaxDefects) }
    /\ translation_loader = ProcessorLoader(resource.translations)
    /\ gender \in Genders
    /\ language \in Languages
    /\ cv_replacements = NoDict
    /\ cover_replacements = NoDict
    /\ lookup = NoCall
    /\ ran = {"parse"}
    /\ IdleSubst
    /\ IdleUtil

\* the translation resolver: single lookups
InitLookup ==
    /\ component = "lookup"
    /\ IdleApp
    /\ IdleSkills
    /\ translation_loader \in Loaders
    /\ resource = JsonResource(translation_loader.translations)
    /\ gender = "male"
    /\ language = "en"
    /\ cv_replacements = NoDict
    /\ cover_replacements = NoDict
    /\ lookup = NoCall
    /\ ran = {}
    /\ IdleSubst
    /\ IdleUtil

\* match_skills: the response is parsed
ParseSkillsResponse ==
    /\ component = "skills"
    /\ "parse" \notin ran
    /\ matched_skills' = parse_skills_response(skills_data)
    /\ ran' = ran \cup {"parse"}
    /\ UNCHANGED <<component, appVars, utilVars, substVars, skills_data, profile_skills, transVars,
                   renderVars, lookup>>

\* process_templates: generate_cv_replacements on the parsed skills
GenerateCvReplacements ==
    /\ component \in {"skills", "render"} \/ (component = "construct" /\ "init" \in ran)
    /\ "parse" \in ran /\ ~matched_skills.raised
    /\ "cv" \notin ran
    /\ cv_replacements' = RenderReturned(CvReplacements(matched_skills.value, profile_skills,
                                             translation_loader, gender, language))
    /\ ran' = ran \cup {"cv"}
    /\ UNCHANGED <<component, appVars, utilVars, substVars, skillsVars, transVars, cover_replacements, lookup>>

\* process_templates: generate_cover_letter_replacements on the parsed skills
GenerateCoverLetterReplacements ==
    /\ component \in {"skills", "render"} \/ (component = "construct" /\ "init" \in ran)
    /\ "parse" \in ran /\ ~matched_skills.raised
    /\ "cover" \notin ran
    /\ cover_replacements' = RenderReturned(CoverReplacements(matched_skills.value,
                                             translation_loader, gender, language))
    /\ ran' = ran \cup {"cover"}
    /\ UNCHANGED <<component, appVars, utilVars, substVars, skillsVars, transVars, cv_replacements, lookup>>

QueryLanguages == {"fr", "xx"}
QuerySections == {"cv", "cover_letter", "zz"}
QueryKeys == {"summary_header", "summary_text_male", "closing_paragraph_2", "nokey"}
QueryVariables == { {}, {"job_title"}, {"company_name"} }

\* a call of get_translation
GetTranslation ==
    /\ component = "lookup"
    /\ lookup = NoCall
    /\ \E lang \in QueryLanguages, section \in QuerySections, key \in QueryKeys :
         lookup' = [op |-> "get", language |-> lang, section |-> section, key |-> key,
                    variables |-> {},
                    outcome |-> get_translation(translation_loader.translations,
                                                lang, section, key)]
    /\ UNCHANGED <<component, appVars, utilVars, substVars, skillsVars, transVars, renderVars, ran>>

\* a call of format_translation
FormatTranslation ==
    /\ component = "lookup"
    /\ lookup = NoCall
    /\ \E lang \in QueryLanguages, section \in QuerySections, key \in QueryKeys,
          names \in QueryVariables :
         lookup' = [op |-> "format", language |-> lang, section |-> section, key |-> key,
                    variables |-> names,
                    outcome |-> format_translation(translation_loader.translations,
                                    lang, section, key, [n \in names |-> <<Lit(<<n>>)>>])]
    /\ UNCHANGED <<component, appVars, utilVars, substVars, skillsVars, transVars, renderVars, ran>>

\* the construction of loader and processor, and renders of the processor
InitConstruct ==
    /\ component = "construct"
    /\ IdleApp
    /\ skills_data = PlainResponse
    /\ profile_skills = Skills("profile", 1)
    /\ matched_skills = parse_skills_response(PlainResponse)
    /\ resource \in Resources
    /\ translation_loader = NoLoader
    /\ gender \in {"male", "other"}
    /\ language \in {"en", "fr"}
    /\ cv_replacements = NoDict
    /\ cover_replacements = NoDict
    /\ lookup = NoCall
    /\ ran = {"parse"}
    /\ IdleSubst
    /\ IdleUtil

\* a call of create_translation_loader
CreateTranslationLoader ==
    /\ component = "construct"
    /\ lookup = NoCall
    /\ lookup' = [op |-> "create", outcome |-> create_translation_loader(resource)]
    /\ UNCHANGED <<component, appVars, utilVars, substVars, skillsVars, transVars, renderVars, ran>>

\* TemplateProcessor(): the processor is there unless the constructor raised
CreateTemplateProcessor ==
    /\ component = "construct"
    /\ ran \cap {"init", "init_raised"} = {}
    /\ LET processor == TemplateProcessor(resource)
       IN  IF processor.raised
           THEN /\ ran' = ran \cup {"init_raised"}
                /\ UNCHANGED translation_loader
           ELSE /\ ran' = ran \cup {"init"}
                /\ translation_loader' = processor.loader
    /\ UNCHANGED <<component, appVars, utilVars, substVars, skillsVars, resource, gender, language,
                   renderVars, lookup>>

NextConstruct ==
    \/ CreateTranslationLoader
    \/ CreateTemplateProcessor
    \/ GenerateCvReplacements
    \/ GenerateCoverLetterReplacements

SpecConstruct == InitConstruct /\ [][NextConstruct]_vars

NextSkills ==
    \/ ParseSkillsResponse
    \/ GenerateCvReplacements
    \/ GenerateCoverLetterReplacements

SpecSkills == InitSkills /\ [][NextSkills]_vars

NextTranslations ==
    \/ GetTranslation
    \/ FormatTranslation
    \/ GenerateCvReplacements
    \/ GenerateCoverLetterReplacements

SpecTranslations == (InitLookup \/ InitRender) /\ [][NextTranslations]_vars

----------------------------------------------------------------------------
(* Properties of the fallback and truncation policy *)

Parsed == component = "skills" /\ "parse" \in ran /\ ~matched_skills.raised
Given == skills_data.lists
Kept == matched_skills.value

NoWhitespace(text) == \A i \in 1..Len(text) : ~IsSpace(text[i])

\* C5: every statement of the response longer than 350 characters comes back
\* with at most 350 characters, and one of 360 characters without whitespace
\* comes back with exactly 350.
C5_TruncatedToLimit ==
    Parsed =>
      \A i \in 1..Len(Given.key_value_contributions) :
        LET contrib == Given.key_value_contributions[i]
            kept == Kept.key_value_contributions[i]
        IN  /\ Len(contrib) > ContribLimit => Len(kept) <= ContribLimit
            /\ (Len(contrib) = ContribLimit + 10 /\ NoWhitespace(contrib))
                 => Len(kept) = ContribLimit

Items(seq) == { seq[i] : i \in 1..Len(seq) }

Achievements ==
    [i \in 1..CoverAchievements |->
        cover_replacements.map[<<"Achievement 1", "Achievement 2", "Achievement 3">>[i]]]

\* C6 as stated: a list of the response that is not empty is the only source
\* of the output: the technologies are its items, and so are the statements
\* kept and the three achievements of the cover letter.
C6_PrimaryOnlyAsStated ==
    Parsed =>
      /\ Given.relevant_technologies # <<>>
           => Items(Kept.relevant_technologies) \subseteq Items(Given.relevant_technologies)
      /\ (Given.key_value_contributions # <<>> /\ "cover" \in ran)
           => Items(Achievements) \subseteq Items(Kept.key_value_contributions)

IsCutOf(kept, contrib) ==
    \/ kept = contrib
    \/ /\ Len(kept) >= 1 /\ Len(kept) - 1 <= Len(contrib)
       /\ kept = SubSeq(contrib, 1, Len(kept) - 1) \o <<".">>

\* C6: the technologies of the response are kept whenever there are any; an
\* empty list is replaced by the first 20 of the matched skills (followed by
\* the job skills when the matched skills are fewer than 10), and by the first
\* 20 job skills when there is no matched skill either: no hardcoded
\* technology is used. The statements of the response are kept, each as it is
\* or cut, whenever there are any, and replaced by the three default statements
\* only when there are none. The cover letter takes the first three statements
\* kept and fills the positions a shorter list leaves with its own defaults.
C6_FallbackChain ==
    Parsed =>
      /\ Given.relevant_technologies # <<>>
           => Kept.relevant_technologies = Given.relevant_technologies
      /\ (Given.relevant_technologies = <<>> /\ Given.matched_skills # <<>>)
           => Kept.relevant_technologies =
                Take(IF Len(Given.matched_skills) < MinTechnologies
                     THEN Given.matched_skills \o Given.job_skills
                     ELSE Given.matched_skills, MaxTechnologies)
      /\ (Given.relevant_technologies = <<>> /\ Given.matched_skills = <<>>)
           => Kept.relevant_technologies = Take(Given.job_skills, MaxTechnologies)
      /\ Given.key_value_contributions # <<>>
           => /\ Len(Kept.key_value_contributions) = Len(Given.key_value_contributions)
              /\ \A i \in 1..Len(Given.key_value_contributions) :
                   IsCutOf(Kept.key_value_contributions[i], Given.key_value_contributions[i])
      /\ Given.key_value_contributions = <<>>
           => Kept.key_value_contributions = ParseDefaults
      /\ "cover" \in ran
           => \A i \in 1..CoverAchievements :
                Achievements[i] = IF i <= Len(Kept.key_value_contributions)
                                  THEN Kept.key_value_contributions[i]
                                  ELSE CoverDefaults[i]

\* a response with one or two statements has been rendered: the cover letter
\* has them, and a default in the third place
C6_Witness ==
    /\ Parsed /\ "cover" \in ran
    /\ Len(Given.key_value_contributions) \in {1, 2}
    /\ Achievements[1] = Given.key_value_contributions[1]
    /\ Achievements[CoverAchievements] = CoverDefaults[CoverAchievements]

\* C7: the technologies and the statements returned by parse_skills_response
\* are never empty, and neither is the SKILLS_LIST text of the CV.
C7_NeverEmpty ==
    Parsed =>
      /\ Kept.relevant_technologies # <<>>
      /\ Kept.key_value_contributions # <<>>
      /\ "cv" \in ran => ~IsBlankText(cv_replacements.map["SKILLS_LIST"])

----------------------------------------------------------------------------
(* Properties of the translation resolver *)

Dictionary == translation_loader.translations

\* the dictionary has the key in the section of the language
Stored(lang, section, key) ==
    /\ lang \in DOMAIN Dictionary
    /\ section \in DOMAIN Dictionary[lang]
    /\ key \in DOMAIN Dictionary[lang][section]

\* C8: get_translation returns the stored string when language, section and
\* key exist, and otherwise raises TranslationError for the first of language,
\* section and key that does not exist; it returns no default.
C8_GetTranslationContract ==
    lookup.op = "get" =>
      IF lookup.language \notin DOMAIN Dictionary
      THEN lookup.outcome.raised /\ lookup.outcome.missing = "language"
      ELSE IF lookup.section \notin DOMAIN Dictionary[lookup.language]
      THEN lookup.outcome.raised /\ lookup.outcome.missing = "section"
      ELSE IF lookup.key \notin DOMAIN Dictionary[lookup.language][lookup.section]
      THEN lookup.outcome.raised /\ lookup.outcome.missing = "key"
      ELSE /\ ~lookup.outcome.raised
           /\ lookup.outcome.value = Dictionary[lookup.language][lookup.section][lookup.key]

\* get_translation("xx", "cv", "summary_header") has raised for the language
C8_Witness ==
    /\ lookup.op = "get"
    /\ lookup.language = "xx" /\ lookup.section = "cv" /\ lookup.key = "summary_header"
    /\ lookup.outcome.raised /\ lookup.outcome.missing = "language"

\* the string of the key has a slot that is none of the variables
HasFreeSlot(lang, section, key, variables) ==
    \E i \in 1..Len(Dictionary[lang][section][key]) :
        /\ Dictionary[lang][section][key][i].slot
        /\ Dictionary[lang][section][key][i].text[1] \notin variables

\* the variables generate_cv_replacements and generate_cover_letter_replacements
\* pass with a key
Passed(key) == { SlotsOf(key)[i] : i \in 1..Len(SlotsOf(key)) }

\* the lookup of the key, as the renders make it, raises for a slot
RaisesForSlot(section, key) ==
    /\ Stored(language, section, key)
    /\ HasFreeSlot(language, section, key, Passed(key))

\* what the renders add to a gendered key for the gender of the profile
Suffix ==
    IF gender \in {"male", "MALE"} THEN "_male"
    ELSE IF gender = "female" THEN "_female"
    ELSE ""

Summary == cv_replacements.map["CV_SUMMARY"]
CvRendered == component = "render" /\ "cv" \in ran /\ translation_loader.available
CoverRendered == component = "render" /\ "cover" \in ran /\ translation_loader.available

\* C9 as stated: when the string of the summary has a slot without variable,
\* the error of format_translation leaves the render.
C9_PropagatedAsStated ==
    (CvRendered /\ RaisesForSlot("cv", "summary_text" \o Suffix))
      => cv_replacements.raised

\* the string of the key, every slot replaced by the text of its variable
Filled(lang, section, key) ==
    [i \in 1..Len(Dictionary[lang][section][key]) |->
        IF Dictionary[lang][section][key][i].slot
        THEN Lit(<<Dictionary[lang][section][key][i].text[1]>>)
        ELSE Dictionary[lang][section][key][i]]

\* C9: format_translation returns the string with every slot replaced by its
\* variable, and raises TranslationError to its caller when a slot has no
\* variable. A render does not let that error out: for the summary it goes on
\* to the ungendered key and then to the job title, and in the cover letter
\* the entry and the translated entries after it are left out.
C9_RaisedToCallerAbsorbedByRender ==
    /\ (lookup.op = "format" /\ Stored(lookup.language, lookup.section, lookup.key))
         => IF HasFreeSlot(lookup.language, lookup.section, lookup.key, lookup.variables)
            THEN lookup.outcome.raised /\ lookup.outcome.missing = "placeholder"
            ELSE /\ ~lookup.outcome.raised
                 /\ lookup.outcome.value = Filled(lookup.language, lookup.section, lookup.key)
    /\ (CvRendered /\ RaisesForSlot("cv", "summary_text" \o Suffix))
         => /\ ~cv_replacements.raised
            /\ Summary = IF Stored(language, "cv", "summary_text")
                            /\ ~RaisesForSlot("cv", "summary_text")
                         THEN Filled(language, "cv", "summary_text")
                         ELSE JobTitle
    /\ (CoverRendered /\ RaisesForSlot("cover_letter", "closing_paragraph_2"))
         => /\ ~cover_replacements.raised
            /\ {"CLOSING_PARAGRAPH_2", "GREETING", "SIGN_OFF"}
                 \cap DOMAIN cover_replacements.map = {}

\* the gendered summary has a slot without variable, and the CV has the
\* ungendered summary
C9_Witness ==
    /\ CvRendered
    /\ gender = "male"
    /\ RaisesForSlot("cv", "summary_text_male")
    /\ Stored(language, "cv", "summary_text")
    /\ Summary = Filled(language, "cv", "summary_text")

\* C10 as stated: for the genders male and female the summary is the string of
\* the gendered key when the section has it, and the string of the ungendered
\* key exactly when it has not; for another gender it is the ungendered one.
C10_TwoStepAsStated ==
    (CvRendered /\ Stored(language, "cv", "summary_text"))
      => IF gender \in {"male", "female"} /\ Stored(language, "cv", "summary_text_" \o gender)
         THEN Summary[1] = Lit(<<language, "cv", "summary_text_" \o gender>>)
         ELSE Summary[1] = Lit(<<language, "cv", "summary_text">>)

\* the lookup of the key, as the renders make it, gives a string
Resolves(section, key) == Stored(language, section, key) /\ ~RaisesForSlot(section, key)

\* the key the two-step lookup ends on, "" when it ends on none
Resolved(section, key) ==
    IF Resolves(section, key \o Suffix) THEN key \o Suffix
    ELSE IF Resolves(section, key) THEN key
    ELSE ""

\* the entry is the string of the key of the section
IsStringOf(entry, section, key) == entry[1] = Lit(<<language, section, key>>)

GenderedEntries ==
    { <<"INTRO_PARAGRAPH", "intro_paragraph">>,
      <<"CLOSING_PARAGRAPH_1", "closing_paragraph_1">>,
      <<"GREETING", "greeting">> }

\* C10: the gender is compared in lower case. For male and female the gendered
\* key is looked up first and its string is the result when it resolves; the
\* ungendered key is used when the gendered one is absent or its string has a
\* slot without variable; for another gender only the ungendered key is looked
\* up. When neither resolves the summary is the job title, and the cover
\* letter has neither the entry nor the translated entries after it.
C10_TwoStepLookup ==
    /\ CvRendered
         => IF Resolved("cv", "summary_text") = "" THEN Summary = JobTitle
            ELSE IsStringOf(Summary, "cv", Resolved("cv", "summary_text"))
    /\ CoverRendered
         => \A e \in GenderedEntries :
              /\ Resolved("cover_letter", e[2]) = ""
                   => {e[1], "SIGN_OFF"} \cap DOMAIN cover_replacements.map = {}
              /\ e[1] \in DOMAIN cover_replacements.map
                   => IsStringOf(cover_replacements.map[e[1]], "cover_letter",
                                 Resolved("cover_letter", e[2]))

\* the section has no greeting for the gender, and the cover letter has the
\* ungendered greeting; and it has the gendered introduction
C10_Witness ==
    /\ CoverRendered
    /\ gender = "female"
    /\ ~Stored(language, "cover_letter", "greeting_female")
    /\ {"GREETING", "INTRO_PARAGRAPH"} \subseteq DOMAIN cover_replacements.map
    /\ IsStringOf(cover_replacements.map["GREETING"], "cover_letter", "greeting")
    /\ IsStringOf(cover_replacements.map["INTRO_PARAGRAPH"], "cover_letter",
                  "intro_paragraph_female")

----------------------------------------------------------------------------
(* Properties of the construction of loader and processor *)

\* the language of the dictionary lacks a required section or a required key
LacksRequired(translations, lang) ==
    \/ ~({"cv", "cover_letter"} \subseteq DOMAIN translations[lang])
    \/ ~(RequiredCvKeys \subseteq DOMAIN translations[lang]["cv"])
    \/ ~(RequiredCoverKeys \subseteq DOMAIN translations[lang]["cover_letter"])

\* the dictionary lacks one of the locales en, fr, es, or one of them lacks a
\* required section or key
Partial(translations) ==
    \E lang \in {"en", "fr", "es"} :
        lang \notin DOMAIN translations \/ LacksRequired(translations, lang)

CreatedFromJson == lookup.op = "create" /\ resource.kind = "json"
Constructed == component = "construct" /\ "init" \in ran

\* C11 as stated: create_translation_loader raises for every dictionary in
\* which one of the locales en, fr, es is missing or lacks a required section
\* or key.
C11_PartialRejectedAsStated ==
    (CreatedFromJson /\ Partial(resource.translations)) => lookup.outcome.raised

\* C11: create_translation_loader raises TranslationError exactly when a
\* language that the dictionary has lacks a required section or key; a
\* dictionary without one of the locales is accepted. The loader of a
\* processor holds no language that lacks a required section or key.
C11_PresentLanguagesValidated ==
    /\ CreatedFromJson
         => /\ lookup.outcome.raised
                 <=> \E lang \in DOMAIN resource.translations :
                        LacksRequired(resource.translations, lang)
            /\ lookup.outcome.raised => lookup.outcome.error = "TranslationError"
            /\ ~lookup.outcome.raised
                 => lookup.outcome.loader.translations = resource.translations
    /\ (Constructed /\ translation_loader.available)
         => \A lang \in DOMAIN translation_loader.translations :
               ~LacksRequired(translation_loader.translations, lang)

\* a dictionary whose locale "fr" lacks a required key of the cover letter
\* has been rejected
C11_Witness ==
    /\ CreatedFromJson
    /\ "fr" \in DOMAIN resource.translations
    /\ "cover_letter" \in DOMAIN resource.translations["fr"]
    /\ "cv" \in DOMAIN resource.translations["fr"]
    /\ "sign_off" \notin DOMAIN resource.translations["fr"]["cover_letter"]
    /\ lookup.outcome.raised

\* create_translation_loader raises for the file
Unloadable == create_translation_loader(resource).raised

\* C12 as stated: a processor is constructed only from a translations file
\* that loads and passes validation.
C12_LoadFailureFatalAsStated ==
    Constructed => (resource.kind = "json" /\ ~Partial(resource.translations))

\* C12: the constructor of TemplateProcessor lets out only the errors of the
\* loader that are no TranslationError (a file that is no UTF-8, JSON that is
\* no object). For a file that is missing, unreadable, no JSON or fails
\* validation it returns a processor without loader, whose renders use the
\* defaults: the job title as summary, and no translated entry in the cover
\* letter.
C12_TranslationErrorLeavesNoLoader ==
    component = "construct" =>
      /\ "init_raised" \in ran => resource.kind \in {"bad_encoding", "not_object"}
      /\ "init" \in ran
           => /\ resource.kind \notin {"bad_encoding", "not_object"}
              /\ translation_loader.available
                   <=> (resource.kind = "json"
                          /\ \A lang \in DOMAIN resource.translations :
                                ~LacksRequired(resource.translations, lang))
      /\ ("cv" \in ran /\ ~translation_loader.available)
           => cv_replacements.map["CV_SUMMARY"] = JobTitle
      /\ ("cover" \in ran /\ ~translation_loader.available)
           => DOMAIN cover_replacements.map
                = {"Date", "Company Name", "Company Address", "City, State ZIP",
                   "Job Title", "Achievement 1", "Achievement 2", "Achievement 3",
                   "specific company detail or mission",
                   "specific responsibility or project mentioned in job posting"}

\* the file is missing, the processor is there, and its CV has the job title
\* as summary
C12_Witness ==
    /\ Constructed
    /\ resource.kind = "missing"
    /\ ~translation_loader.available
    /\ "cv" \in ran
    /\ cv_replacements.map["CV_SUMMARY"] = JobTitle

----------------------------------------------------------------------------
(* Inputs and state machine of the date formatter *)

YearParts ==
    { <<"2", "0", "2", "3">>, <<"2", "0", "2", "4">>, <<"0", "0", "0", "0">>,
      <<"0", "0", "2", "3">>, <<"2", "0", "2">>, <<"2", "0", "2", "3", "3">> }

MonthParts ==
    { <<"0", "1">>, <<"1">>, <<"0", "2">>, <<"0", "5">>, <<"0", "6">>, <<"1", "2">>,
      <<"1", "3">>, <<"0", "0">>, <<>>, <<"a">> }

DayParts ==
    { <<"1", "5">>, <<"3", "0">>, <<"3", "1">>, <<"2", "9">>, <<"0", "1">>, <<"5">>,
      <<" ", "5">>, <<"3", "2">>, <<"0", "0">>, <<>>, <<"1", "5", " ">> }

\* strings of the shape year-month-day, and strings of other shapes
IsoDates ==
    { y \o <<"-">> \o m \o <<"-">> \o d : y \in YearParts, m \in MonthParts, d \in DayParts }
    \cup { <<>>,
           <<"2", "0", "2", "3", "/", "0", "1", "/", "1", "5">>,
           <<"2", "0", "2", "3", "-", "0", "1">>,
           <<"2", "0", "2", "3", "-", "0", "1", "-", "1", "5", "-">>,
           <<"2", "0", "2", "3", "0", "1", "1", "5">>,
           <<"n", "o", "w">> }

EndDates ==
    { <<"2", "0", "2", "3", "-", "0", "6", "-", "3", "0">>,
      <<"2", "0", "2", "5", "-", "1", "2", "-", "3", "1">>,
      <<"2", "0", "2", "3", "-", "1", "3", "-", "0", "1">>,
      <<>> }

DateLanguages == {"en", "fr", "es", "de"}

InitDates ==
    /\ component = "dates"
    /\ IdleApp
    /\ \E start \in IsoDates, end \in EndDates, lang \in DateLanguages :
         dates = [op |-> "input", start_date |-> start, end_date |-> end,
                  language |-> lang, include_day |-> FALSE, formatted |-> <<>>]
    /\ titles = NoTitles
    /\ IdleSubst
    /\ IdleSkills
    /\ IdleRender

\* a call of translate_date on the start date
TranslateDate ==
    /\ component = "dates"
    /\ dates.op = "input"
    /\ \E include_day \in BOOLEAN :
         dates' = [dates EXCEPT !.op = "date", !.include_day = include_day,
                     !.formatted = translate_date(dates.start_date, dates.language,
                                                  include_day)]
    /\ UNCHANGED <<component, appVars, titles, substVars, skillsVars, transVars, renderVars,
                   lookup, ran>>

\* a call of translate_date_range
TranslateDateRange ==
    /\ component = "dates"
    /\ dates.op = "input"
    /\ dates' = [dates EXCEPT !.op = "range",
                   !.formatted = translate_date_range(dates.start_date, dates.end_date,
                                                      dates.language)]
    /\ UNCHANGED <<component, appVars, titles, substVars, skillsVars, transVars, renderVars,
                   lookup, ran>>

NextDates ==
    \/ TranslateDate
    \/ TranslateDateRange

SpecDates == InitDates /\ [][NextDates]_vars

----------------------------------------------------------------------------
(* Properties of the date formatter *)

MonthLengths == <<31, 28, 31, 30, 31, 30, 31, 31, 30, 31, 30, 31>>

\* the year, month and day name a date of the calendar
OnCalendar(year, month, day) ==
    /\ year >= 1
    /\ month \in 1..12
    /\ day >= 1
    /\ day <= IF month = 2 /\ (year % 400 = 0 \/ (year % 4 = 0 /\ year % 100 # 0))
              THEN 29 ELSE MonthLengths[month]

\* the value of one or two digit characters
Value(digits) ==
    IF Len(digits) = 1 THEN DigitValue(digits[1])
    ELSE 10 * DigitValue(digits[1]) + DigitValue(digits[2])

YearValue(iso) ==
    1000 * DigitValue(iso[1]) + 100 * DigitValue(iso[2]) + 10 * DigitValue(iso[3])
      + DigitValue(iso[4])

\* a date written YYYY-MM-DD
IsIsoDate(iso) ==
    /\ Len(iso) = 10
    /\ iso[5] = "-" /\ iso[8] = "-"
    /\ \A i \in {1, 2, 3, 4, 6, 7, 9, 10} : IsDigit(iso[i])
    /\ OnCalendar(YearValue(iso), Value(SubSeq(iso, 6, 7)), Value(SubSeq(iso, 9, 10)))

\* the digits of a number written without leading zeros
RECURSIVE Unpadded(_)
Unpadded(digits) ==
    IF Len(digits) > 1 /\ digits[1] = "0" THEN Unpadded(Tail(digits)) ELSE digits

DateCalled == dates.op = "date"

C14_UnchangedAsStated ==
    (DateCalled /\ ~IsIsoDate(dates.start_date)) => dates.formatted = dates.start_date

\* the spellings strptime takes for a month and for a day: one digit, two
\* digits, and for the day a space and a digit
IsMonthSpelling(part) ==
    /\ Len(part) \in {1, 2}
    /\ \A i \in 1..Len(part) : IsDigit(part[i])
    /\ Value(part) \in 1..12

IsDaySpelling(part) ==
    /\ Len(part) \in {1, 2}
    /\ IsDigit(part[Len(part)])
    /\ Len(part) = 2 => (IsDigit(part[1]) \/ part[1] = " ")
    /\ Value(IF part[1] = " " THEN Tail(part) ELSE part) \in 1..31

\* the string is four digits, "-", a month, "-", a day, and names a date
Parses(iso) ==
    \E m \in 1..2, d \in 1..2 :
       /\ Len(iso) = 6 + m + d
       /\ \A i \in 1..4 : IsDigit(iso[i])
       /\ iso[5] = "-" /\ iso[6 + m] = "-"
       /\ IsMonthSpelling(SubSeq(iso, 6, 5 + m))
       /\ IsDaySpelling(SubSeq(iso, 7 + m, 6 + m + d))
       /\ OnCalendar(YearValue(iso), Value(SubSeq(iso, 6, 5 + m)),
                     LET part == SubSeq(iso, 7 + m, 6 + m + d)
                     IN  Value(IF part[1] = " " THEN Tail(part) ELSE part))

\* C14: translate_date returns for every string; a string that strptime does
\* not parse with "%Y-%m-%d" comes back unchanged: wrong shape, month outside
\* 1..12, day outside the month, year 0000, empty string. A string with a
\* month or day of one digit, or a day written as a space and a digit, is
\* parsed and formatted.
C14_UnparsedUnchanged ==
    DateCalled =>
      /\ ~Parses(dates.start_date) => dates.formatted = dates.start_date
      /\ Parses(dates.start_date) => dates.formatted # dates.start_date

\* translate_date("2023-02-30", ...) has returned "2023-02-30"
C14_Witness ==
    /\ DateCalled
    /\ dates.start_date = <<"2", "0", "2", "3", "-", "0", "2", "-", "3", "0">>
    /\ dates.formatted = dates.start_date

\* C15: translate_date_range is translate_date of the start without day, an
\* en dash between single spaces, and translate_date of the end without day;
\* ("2023-01-01", "2023-06-30", "es") gives "Enero 2023 - Junio 2023" with an
\* en dash.
C15_RangeJoinsEndpoints ==
    dates.op = "range" =>
      /\ dates.formatted = translate_date(dates.start_date, dates.language, FALSE)
                             \o <<" ", "en dash", " ">>
                             \o translate_date(dates.end_date, dates.language, FALSE)
      /\ (/\ dates.start_date = <<"2", "0", "2", "3", "-", "0", "1", "-", "0", "1">>
          /\ dates.end_date = <<"2", "0", "2", "3", "-", "0", "6", "-", "3", "0">>
          /\ dates.language = "es")
           => dates.formatted = <<"Enero", " ", "2", "0", "2", "3", " ", "en dash", " ",
                                  "Junio", " ", "2", "0", "2", "3">>

\* translate_date_range("2023-01-01", "2023-06-30", "es") has returned
C15_Witness ==
    /\ dates.op = "range"
    /\ dates.start_date = <<"2", "0", "2", "3", "-", "0", "1", "-", "0", "1">>
    /\ dates.end_date = <<"2", "0", "2", "3", "-", "0", "6", "-", "3", "0">>
    /\ dates.language = "es"
    /\ dates.formatted = <<"Enero", " ", "2", "0", "2", "3", " ", "en dash", " ",
                           "Junio", " ", "2", "0", "2", "3">>

----------------------------------------------------------------------------
(* The gendered title parser (job_title_parser.py)                          *)
(* A title is a sequence of characters.                                     *)

\* the smallest number of a non-empty finite set of numbers
Minimum(S) == CHOOSE a \in S : \A b \in S : a <= b

Interpunct == "·"

\* str.lower(), over the characters of the titles
TitleLower(c) ==
    IF c = "S" THEN "s" ELSE IF c = "E" THEN "e" ELSE IF c = "D" THEN "d"
    ELSE IF c = "A" THEN "a" ELSE c

LowerText(text) == [i \in 1..Len(text) |-> TitleLower(text[i])]

\* str.strip()
Strip(text) ==
    LET kept == { i \in 1..Len(text) : ~IsSpace(text[i]) }
    IN  IF kept = {} THEN <<>> ELSE SubSeq(text, Minimum(kept), Maximum(kept))

\* re.sub(r'\([^)]*\)', '', text) from position i on: every "(" that has a
\* ")" after it is deleted with everything up to the first such ")"
RECURSIVE RemoveParenthesised(_, _)
RemoveParenthesised(text, i) ==
    IF i > Len(text) THEN <<>>
    ELSE LET closing == { j \in (i + 1)..Len(text) : text[j] = ")" }
         IN  IF text[i] = "(" /\ closing # {}
             THEN RemoveParenthesised(text, Minimum(closing) + 1)
             ELSE <<text[i]>> \o RemoveParenthesised(text, i + 1)

\* the text before the last occurrence of the marker
BeforeLast(text, marker) ==
    LET at == { i \in 1..Len(text) : text[i] = marker }
    IN  IF at = {} THEN text ELSE SubSeq(text, 1, Maximum(at) - 1)

\* text.split(marker)[0]
Before(text, marker) ==
    LET at == { i \in 1..Len(text) : text[i] = marker }
    IN  IF at = {} THEN text ELSE SubSeq(text, 1, Minimum(at) - 1)

\* _extract_base_form(job_title)
extract_base_form(job_title) ==
    LET without_parens == Strip(RemoveParenthesised(job_title, 1))
        before_slash == Strip(Before(without_parens, "/"))
    IN  Strip(Before(before_slash, Interpunct))

NoMatch == [matched |-> FALSE, base |-> <<>>, content |-> <<>>, suffix |-> <<>>]

\* re.search(r'^([^()]+)\(([^)]+)\)(.*)$', job_title): the groups, stripped
ParenMatch(job_title) ==
    LET parens == { i \in 1..Len(job_title) : job_title[i] \in {"(", ")"} }
    IN  IF parens = {} THEN NoMatch
        ELSE LET open == Minimum(parens)
                 closing == { j \in (open + 1)..Len(job_title) : job_title[j] = ")" }
             IN  IF job_title[open] # "(" \/ open = 1 \/ closing = {} THEN NoMatch
                 ELSE IF Minimum(closing) = open + 1 THEN NoMatch
                 ELSE [matched |-> TRUE,
                       base |-> Strip(SubSeq(job_title, 1, open - 1)),
                       content |-> Strip(SubSeq(job_title, open + 1, Minimum(closing) - 1)),
                       suffix |-> Strip(SubSeq(job_title, Minimum(closing) + 1,
                                               Len(job_title)))]

\* re.search of '^([^/]+)/(.+)$' and of '^([^·]+)·(.+)$': the groups, stripped
MarkerMatch(job_title, marker) ==
    LET at == { i \in 1..Len(job_title) : job_title[i] = marker }
    IN  IF at = {} THEN NoMatch
        ELSE IF Minimum(at) = 1 \/ Minimum(at) = Len(job_title) THEN NoMatch
        ELSE [matched |-> TRUE,
              base |-> Strip(SubSeq(job_title, 1, Minimum(at) - 1)),
              content |-> Strip(SubSeq(job_title, Minimum(at) + 1, Len(job_title))),
              suffix |-> <<>>]

EndsWithR(base) == base # <<>> /\ base[Len(base)] = "r"
DropLast(base) == SubSeq(base, 1, Len(base) - 1)

ParenSuffixLimit == 3
ParenSuffixes == { <<"s", "e">>, <<"e">>, <<"a">>, <<"e", "u", "s", "e">>, <<"e", "u", "r", "e">> }
SlashSuffixes == { <<"e", "u", "s", "e">>, <<"s", "e">>, <<"e">>, <<"a">> }

\* a test of the parenthetical content that does not look at its length
IsSuffixOfAnyLength(content) == LowerText(content) \in ParenSuffixes

\* len(paren_content) <= 3 and paren_content.lower() in [...]
IsShortSuffix(content) ==
    Len(content) <= ParenSuffixLimit /\ LowerText(content) \in ParenSuffixes

\* _extract_feminine_form(job_title)
extract_feminine_form(job_title) ==
    LET paren == ParenMatch(job_title)
        slash == MarkerMatch(job_title, "/")
        dot == MarkerMatch(job_title, Interpunct)
    IN  IF paren.matched
        THEN IF IsShortSuffix(paren.content)
             THEN IF /\ LowerText(paren.content) \in { <<"s", "e">>, <<"e", "u", "s", "e">> }
                     /\ EndsWithR(paren.base)
                  THEN DropLast(paren.base) \o paren.content
                  ELSE paren.base \o paren.content \o paren.suffix
             ELSE paren.content \o paren.suffix
        ELSE IF slash.matched
        THEN IF LowerText(slash.content) \in SlashSuffixes
             THEN IF /\ EndsWithR(slash.base)
                     /\ LowerText(slash.content) \in { <<"e", "u", "s", "e">>, <<"s", "e">> }
                  THEN DropLast(slash.base) \o slash.content
                  ELSE slash.base \o slash.content
             ELSE slash.content
        ELSE IF dot.matched THEN dot.content
        ELSE job_title

\* gender.lower(), over the gender values of the titles
TitleGenderLower(g) ==
    IF g = "FEMALE" THEN "female" ELSE IF g = "Male" THEN "male" ELSE g

\* extract_gender_form(job_title, gender)
extract_gender_form(job_title, g) ==
    IF TitleGenderLower(g) = "male" THEN extract_base_form(job_title)
    ELSE IF TitleGenderLower(g) = "female" THEN extract_feminine_form(job_title)
    ELSE job_title

\* a test for the parentheses only
is_gendered_title_parens(job_title) ==
    \E i \in 1..Len(job_title) : job_title[i] = "("

\* is_gendered_title(job_title): re.search(r'[\(/]|\·', job_title)
is_gendered_title(job_title) ==
    \E i \in 1..Len(job_title) : job_title[i] \in {"(", "/", Interpunct}

----------------------------------------------------------------------------
(* Inputs and state machine of the title parser *)

Developpeur == <<"D", "é", "v", "e", "l", "o", "p", "p", "e", "u", "r">>
Developpeuse == <<"D", "é", "v", "e", "l", "o", "p", "p", "e", "u", "s", "e">>
Avocat == <<"A", "v", "o", "c", "a", "t">>
SoftwareEngineer ==
    <<"S", "o", "f", "t", "w", "a", "r", "e", " ", "E", "n", "g", "i", "n", "e", "e", "r">>

TitleParts ==
    { Developpeur, Avocat, SoftwareEngineer,
      <<" ">>, <<"(">>, <<")">>, <<"/">>, <<Interpunct>>,
      <<"(", "s", "e", ")">>, <<"(", "S", "E", ")">>, <<"(", "e", ")">>,
      <<"(", "e", "u", "s", "e", ")">>, <<"(", "e", "u", "s", "e", ")", " ", "x">>,
      <<"(", "s", "e", ")", " ", "x">>, <<"(", "e", ")", " ", "x">>,
      <<"e", "u", "s", "e">>, <<"s", "e">>, <<"x">> }

JobTitles == { Concat(parts) : parts \in UNION { [1..n -> TitleParts] : n \in 0..MaxTitleParts } }

TitleGenders == {"male", "female", "FEMALE", "other"}

InitTitles ==
    /\ component = "titles"
    /\ IdleApp
    /\ \E job_title \in JobTitles :
         titles = [op |-> "input", job_title |-> job_title, gender |-> "male",
                   form |-> <<>>, gendered |-> FALSE]
    /\ dates = NoDates
    /\ IdleSubst
    /\ IdleSkills
    /\ IdleRender

\* a call of extract_gender_form
ExtractGenderForm ==
    /\ component = "titles"
    /\ titles.op = "input"
    /\ \E g \in TitleGenders :
         titles' = [titles EXCEPT !.op = "form", !.gender = g,
                      !.form = extract_gender_form(titles.job_title, g)]
    /\ UNCHANGED <<component, appVars, dates, substVars, skillsVars, transVars, renderVars,
                   lookup, ran>>

\* a call of is_gendered_title
IsGenderedTitle ==
    /\ component = "titles"
    /\ titles.op = "input"
    /\ titles' = [titles EXCEPT !.op = "gendered",
                    !.gendered = is_gendered_title(titles.job_title)]
    /\ UNCHANGED <<component, appVars, dates, substVars, skillsVars, transVars, renderVars,
                   lookup, ran>>

NextTitles ==
    \/ ExtractGenderForm
    \/ IsGenderedTitle

SpecTitles == InitTitles /\ [][NextTitles]_vars

----------------------------------------------------------------------------
(* Properties of the title parser *)

FormCalled == titles.op = "form"
Title == titles.job_title
Male == FormCalled /\ titles.gender = "male"
Female == FormCalled /\ titles.gender \in {"female", "FEMALE"}

Trimmed(text) == TrimRight(TrimLeft(text))

\* the characters of the text at the positions kept, in their order
Keep(text, kept) ==
    [n \in 1..Cardinality(kept) |->
        text[CHOOSE i \in kept : Cardinality({ k \in kept : k <= i }) = n]]

\* position i lies in a parenthesised group: from a "(" up to the first ")"
\* after it
InGroup(text, i) ==
    /\ \E j \in i..Len(text) : text[j] = ")"
    /\ \E o \in 1..i : text[o] = "(" /\ \A k \in o..(i - 1) : text[k] # ")"

WithoutGroups(text) == Keep(text, { i \in 1..Len(text) : ~InGroup(text, i) })

\* the segment before the first occurrence of the marker
UpTo(text, marker) ==
    Keep(text, { i \in 1..Len(text) : \A k \in 1..i : text[k] # marker })

HasMarker(text) == \E i \in 1..Len(text) : text[i] \in {"(", "/", "·"}

\* C16 as stated: the base form is the title without its parenthesised
\* groups, cut before the first slash and then before the first interpunct,
\* and nothing else is changed.
C16_ThreePassesAsStated ==
    Male => titles.form = UpTo(UpTo(WithoutGroups(Title), "/"), "·")

\* C16: the base form is the result of three passes applied in this order
\* whatever notation is present, each followed by the removal of the
\* whitespace around the text: delete every parenthesised group, keep the
\* segment before the first slash, keep the segment before the first
\* interpunct. A title without marker comes back without the whitespace
\* around it. "Développeur/euse" gives "Développeur" and "Software Engineer"
\* gives "Software Engineer".
C16_ThreePassesAndStrip ==
    Male =>
      /\ titles.form =
           Trimmed(UpTo(Trimmed(UpTo(Trimmed(WithoutGroups(Title)), "/")), "·"))
      /\ ~HasMarker(Title) => titles.form = Trimmed(Title)
      /\ Title = Developpeur \o <<"/", "e", "u", "s", "e">> => titles.form = Developpeur
      /\ Title = SoftwareEngineer => titles.form = SoftwareEngineer

\* the base form of "Développeur/euse" is "Développeur"
C16_Witness ==
    /\ Male
    /\ Title = Developpeur \o <<"/", "e", "u", "s", "e">>
    /\ titles.form = Developpeur

\* the title is Base(content)trailing: its first parenthesis is a "(" after
\* at least one character, and a ")" follows after at least one character
Parenthetical(text) ==
    \E o \in 2..Len(text), c \in 1..Len(text) :
       /\ text[o] = "(" /\ \A k \in 1..(o - 1) : text[k] \notin {"(", ")"}
       /\ c > o + 1 /\ text[c] = ")" /\ \A k \in (o + 1)..(c - 1) : text[k] # ")"

OpenAt(text) == CHOOSE o \in 1..Len(text) : text[o] = "(" /\ \A k \in 1..(o - 1) : text[k] # "("
CloseAt(text) ==
    CHOOSE c \in (OpenAt(text) + 1)..Len(text) :
        text[c] = ")" /\ \A k \in (OpenAt(text) + 1)..(c - 1) : text[k] # ")"

BaseOf(text) == SubSeq(text, 1, OpenAt(text) - 1)
ContentOf(text) == SubSeq(text, OpenAt(text) + 1, CloseAt(text) - 1)
TrailingOf(text) == SubSeq(text, CloseAt(text) + 1, Len(text))

Folds(text) == [i \in 1..Len(text) |-> TitleLower(text[i])]
ShortSuffix(content) == Folds(content) \in { <<"s", "e">>, <<"e">>, <<"a">> }
LastIsR(text) == text # <<>> /\ text[Len(text)] = "r"
AllButLast(text) == SubSeq(text, 1, Len(text) - 1)

SlashTitle(text) ==
    /\ ~Parenthetical(text)
    /\ \E i \in 2..(Len(text) - 1) : text[i] = "/" /\ \A k \in 1..(i - 1) : text[k] # "/"

SegmentOf(text) ==
    SubSeq(text, 1 + (CHOOSE i \in 1..Len(text) :
                         text[i] = "/" /\ \A k \in 1..(i - 1) : text[k] # "/"), Len(text))

\* C18: for a title Base/segment the feminine form of "Développeur/euse" is
\* "Développeuse", and a segment that is none of euse, se, e, a is the
\* feminine form itself.
C18_SlashFeminine ==
    (Female /\ SlashTitle(Title)) =>
      /\ Title = Developpeur \o <<"/", "e", "u", "s", "e">> => titles.form = Developpeuse
      /\ Folds(Trimmed(SegmentOf(Title)))
           \notin { <<"e", "u", "s", "e">>, <<"s", "e">>, <<"e">>, <<"a">> }
           => titles.form = Trimmed(SegmentOf(Title))

\* C19: the feminine form of "Développeur·euse" is "Développeuse".
C19_InterpunctFeminine ==
    (Female /\ Title = Developpeur \o <<"·", "e", "u", "s", "e">>)
      => titles.form = Developpeuse

\* the title has no slash, no interpunct and no "(" with a ")" after it
Unrecognized(text) ==
    /\ \A i \in 1..Len(text) : text[i] \notin {"/", "·"}
    /\ \A i \in 1..Len(text) : text[i] = "(" => \A j \in i..Len(text) : text[j] # ")"

\* C20 as stated: is_gendered_title is true exactly for the titles with one
\* of "(", "/", "·"; a title without them is its own feminine form; a title
\* of no recognized pattern, and every title under a gender that is neither
\* male nor female, comes back as it is.
C20_DegradesToOriginalAsStated ==
    /\ titles.op = "gendered" => (titles.gendered <=> HasMarker(Title))
    /\ (Female /\ ~HasMarker(Title)) => titles.form = Title
    /\ (FormCalled /\ Unrecognized(Title)) => titles.form = Title
    /\ (FormCalled /\ titles.gender = "other") => titles.form = Title

\* C20: is_gendered_title is true exactly for the titles with one of "(",
\* "/", "·"; a title without them is its own feminine form; a title with no
\* slash, no interpunct and no "(" with a ")" after it comes back as it is
\* for female and without the whitespace around it for male; every title
\* under a gender that is neither male nor female (in any case) comes back
\* as it is.
C20_DegradesToOriginal ==
    /\ titles.op = "gendered" => (titles.gendered <=> HasMarker(Title))
    /\ (Female /\ ~HasMarker(Title)) => titles.form = Title
    /\ (Female /\ Unrecognized(Title)) => titles.form = Title
    /\ (Male /\ Unrecognized(Title)) => titles.form = Trimmed(Title)
    /\ (FormCalled /\ titles.gender = "other") => titles.form = Title

\* a title with an opening parenthesis only has come back as it is
C20_Witness ==
    /\ Female
    /\ Title = Developpeur \o <<"(">>
    /\ titles.form = Title

----------------------------------------------------------------------------
(* Properties of the truncation and of the cardinality ceiling *)

HasWhitespace(text) == \E i \in 1..Len(text) : IsSpace(text[i])
LastWhitespace(text) == Maximum({ i \in 1..Len(text) : IsSpace(text[i]) })
Window(contrib) == SubSeq(contrib, 1, ContribLimit)
WithoutPeriod(kept) == SubSeq(kept, 1, Len(kept) - 1)

\* C25: a statement longer than 350 characters with whitespace among its
\* first 350 characters is cut at the last whitespace of that window, so that
\* what is kept, without its terminal period, is the text before that
\* whitespace and is followed in the statement by whitespace; the cut at the
\* boundary is made only when the window has no whitespace.
C25_WordSafeCut ==
    Parsed =>
      \A i \in 1..Len(Given.key_value_contributions) :
        LET contrib == Given.key_value_contributions[i]
            kept == Kept.key_value_contributions[i]
            body == WithoutPeriod(kept)
        IN  Len(contrib) > ContribLimit =>
              /\ Len(kept) >= 1
              /\ IF HasWhitespace(Window(contrib))
                 THEN /\ body = RStrip(SubSeq(contrib, 1, LastWhitespace(Window(contrib)) - 1))
                      /\ IsSpace(contrib[Len(body) + 1])
                 ELSE body = Window(contrib)

EndsInPunctuation(text) == text # <<>> /\ text[Len(text)] \in {".", "!", "?"}

\* C26: a statement of at most 350 characters comes back unchanged; a longer
\* one comes back as a cut of it, with a period added exactly when the cut
\* does not end in ".", "!" or "?".
C26_TerminalPeriod ==
    Parsed =>
      \A i \in 1..Len(Given.key_value_contributions) :
        LET contrib == Given.key_value_contributions[i]
            kept == Kept.key_value_contributions[i]
        IN  /\ Len(contrib) <= ContribLimit => kept = contrib
            /\ Len(contrib) > ContribLimit =>
                 \E n \in 0..ContribLimit :
                   LET cut == SubSeq(contrib, 1, n)
                   IN  kept = IF EndsInPunctuation(cut) THEN cut ELSE cut \o <<".">>

\* the matched skills, followed by the job skills when they are fewer than 10
Derived(lists) ==
    IF Len(lists.matched_skills) < MinTechnologies
    THEN lists.matched_skills \o lists.job_skills
    ELSE lists.matched_skills

IsPrefix(short, long) ==
    Len(short) <= Len(long) /\ short = SubSeq(long, 1, Len(short))

\* C27: when the response has no technologies, the list derived from the
\* matched and the job skills is cut to its first 20 items; the skills text
\* of the CV, the same under both of its keys, lists at most 20 items, which
\* are the first items of the technologies, of the matched skills or of the
\* profile's skills, in their order.
C27_CardinalityCeiling ==
    Parsed =>
      /\ Given.relevant_technologies = <<>>
           => /\ Len(Kept.relevant_technologies) <= MaxTechnologies
              /\ IsPrefix(Kept.relevant_technologies, Derived(Given))
              /\ Len(Derived(Given)) >= MaxTechnologies
                   => Len(Kept.relevant_technologies) = MaxTechnologies
      /\ "cv" \in ran
           => LET text == cv_replacements.map["SKILLS_LIST"]
              IN  /\ cv_replacements.map["20 relevant skills/tools"] = text
                  /\ Len(text) <= TopSkills
                  /\ \/ IsPrefix(text, Kept.relevant_technologies)
                     \/ IsPrefix(text, Kept.matched_skills)
                     \/ IsPrefix(text, profile_skills)

\* a response without technologies and with 21 matched skills has been
\* rendered: the technologies and the skills text are the first 20 of them
C27_Witness ==
    /\ Parsed /\ "cv" \in ran
    /\ Given.relevant_technologies = <<>>
    /\ Len(Given.matched_skills) = MaxTechnologies + 1
    /\ Kept.relevant_technologies = SubSeq(Given.matched_skills, 1, MaxTechnologies)
    /\ "SKILLS_LIST" \in DOMAIN cv_replacements.map
    /\ cv_replacements.map["SKILLS_LIST"] = Kept.relevant_technologies

----------------------------------------------------------------------------
(* Properties of the replacement values *)

\* text with the placeholders of every item from the n-th on replaced, in
\* insertion order, by the characters of the item's value as they are
RECURSIVE VerbatimFrom(_, _, _)
VerbatimFrom(text, items, n) ==
    IF n > Len(items) THEN text
    ELSE VerbatimFrom(Verbatim(text, items[n][1], items[n][2]), items, n + 1)

\* C28: for every dict, whatever its values hold (a backslash, a group
\* reference), replace_placeholders does not raise and its output is the
\* template with the characters of each value, as they are, in place of the
\* placeholders of its key.
C28_ValuesInsertedVerbatim ==
    calls >= 1 =>
      /\ ~first.raised
      /\ first.text = VerbatimFrom(template, replacements, 1)

----------------------------------------------------------------------------
(* Properties of the text after the parenthesised group *)

EndsWith(text, tail) ==
    Len(tail) <= Len(text) /\ SubSeq(text, Len(text) - Len(tail) + 1, Len(text)) = tail

\* C29: for a title Base(content)trailing whose trailing text is not blank,
\* whenever the masculine form ends with the trailing text, the feminine form
\* ends with it too, and after a space that separates it from the word
\* before whenever the masculine form has that space.
C29_TrailingSurvives ==
    (Female /\ Parenthetical(Title) /\ Trimmed(TrailingOf(Title)) # <<>>)
      => LET trailing == Trimmed(TrailingOf(Title))
             male == extract_gender_form(Title, "male")
         IN  /\ EndsWith(male, trailing) => EndsWith(titles.form, trailing)
             /\ EndsWith(male, <<" ">> \o trailing)
                  => EndsWith(titles.form, <<" ">> \o trailing)

----------------------------------------------------------------------------
(* Properties of the fallback to English *)

\* the maps the same render builds for a job in English
EnglishCv ==
    CvReplacements(matched_skills.value, profile_skills, translation_loader, gender, "en")
EnglishCover == CoverReplacements(matched_skills.value, translation_loader, gender, "en")

\* every entry of the map for English is in the map, with the same value
SameAsEnglish(map, english) ==
    \A key \in DOMAIN english : key \in DOMAIN map /\ map[key] = english[key]

\* C24: whatever the language of the job and whatever the locale lacks, the
\* maps of generate_cv_replacements and generate_cover_letter_replacements
\* have the keys they have for a job in English, and for a language outside
\* the dictionary every entry has its English value.
C24_EnglishFallback ==
    /\ CvRendered
         => /\ DOMAIN cv_replacements.map = DOMAIN EnglishCv
            /\ language \notin DOMAIN Dictionary
                 => SameAsEnglish(cv_replacements.map, EnglishCv)
    /\ CoverRendered
         => /\ DOMAIN cover_replacements.map = DOMAIN EnglishCover
            /\ language \notin DOMAIN Dictionary
                 => SameAsEnglish(cover_replacements.map, EnglishCover)

----------------------------------------------------------------------------
(* The application store: src/src/database.py *)

\* at most MaxDbCalls calls are made on one ApplicationDatabase
MaxDbCalls == 4

\* None of Python, where a value is optional
None == "None"

\* an Optional[Application] that is returned: an Application, or None
Some(application) == [is_none |-> FALSE, value |-> application]
Nothing == [is_none |-> TRUE, value |-> None]

\* json.dumps of one str: the quote and the backslash are escaped
json_escape(text) ==
    Concat([i \in 1..Len(text) |->
              IF text[i] \in {"\"", "\\"} THEN <<"\\", text[i]>> ELSE <<text[i]>>])

\* ", ".join(items)
RECURSIVE JoinList(_)
JoinList(items) ==
    IF items = <<>> THEN <<>>
    ELSE IF Len(items) = 1 THEN Head(items)
    ELSE Head(items) \o <<",", " ">> \o JoinList(Tail(items))

\* json.dumps of a list of str: the text stored in the column
json_dumps(list) ==
    <<"[">>
      \o JoinList([i \in 1..Len(list) |-> <<"\"">> \o json_escape(list[i]) \o <<"\"">>])
      \o <<"]">>

\* the scanner of json.loads on the text of a list of str: outside a string
\* the brackets, commas and spaces are skipped, inside a string a backslash
\* gives the character after it and a quote ends the string
RECURSIVE JsonScan(_, _, _, _, _)
JsonScan(text, i, in_string, cur, out) ==
    IF i > Len(text) THEN out
    ELSE IF in_string
         THEN IF text[i] = "\\"
              THEN JsonScan(text, i + 2, TRUE, Append(cur, text[i + 1]), out)
              ELSE IF text[i] = "\""
                   THEN JsonScan(text, i + 1, FALSE, <<>>, Append(out, cur))
                   ELSE JsonScan(text, i + 1, TRUE, Append(cur, text[i]), out)
         ELSE JsonScan(text, i + 1, text[i] = "\"", <<>>, out)

json_loads(text) == JsonScan(text, 1, FALSE, <<>>, <<>>)

\* the value fields of an Application, in the order of the class
ValueFields ==
    {"matching_rate", "unmatched_skills", "matched_skills", "location", "job_offer_input",
     "application_cost", "language", "cv_pdf", "cover_letter_pdf"}

\* an Application as the caller builds it: id and created_at are None.
\* Rates are in hundredths, costs in hundred-millionths of a dollar.
Application(company, position, values) ==
    [id |-> None, company |-> company, position |-> position, created_at |-> None]
      @@ values

\* two sets of values that differ in every field a save can change
ValueSets ==
    { [matching_rate |-> 85,
       unmatched_skills |-> << <<"a">>, <<"b", ",", " ", "c">> >>,
       matched_skills |-> << <<"p">> >>,
       location |-> "Remote", job_offer_input |-> "first text",
       application_cost |-> 150, language |-> "en",
       cv_pdf |-> "pdf bytes", cover_letter_pdf |-> "pdf bytes"],
      [matching_rate |-> 90,
       unmatched_skills |-> <<>>,
       matched_skills |-> << <<"\"", "p", "\\">>, <<"]">> >>,
       location |-> "Paris", job_offer_input |-> "updated text",
       application_cost |-> 200, language |-> "fr",
       cv_pdf |-> None, cover_letter_pdf |-> None] }

Companies == {"TestCorp", "testcorp"}
Positions == {"AI Engineer", "Data Scientist"}

Applications ==
    { Application(company, position, values) :
        company \in Companies, position \in Positions, values \in ValueSets }

\* the row an INSERT or UPDATE writes: the lists are stored as JSON text
Row(id, application, now) ==
    [id |-> id, company |-> application.company, position |-> application.position,
     matching_rate |-> application.matching_rate,
     unmatched_skills |-> json_dumps(application.unmatched_skills),
     matched_skills |-> json_dumps(application.matched_skills),
     location |-> application.location,
     job_offer_input |-> application.job_offer_input,
     application_cost |-> application.application_cost,
     language |-> application.language,
     created_at |-> now,
     cv_pdf |-> application.cv_pdf,
     cover_letter_pdf |-> application.cover_letter_pdf]

\* SELECT id FROM applications WHERE company = ? AND position = ?
Existing(db, application) ==
    { row \in db.rows :
        row.company = application.company /\ row.position = application.position }

Ids(db) == { row.id : row \in db.rows }

\* id INTEGER PRIMARY KEY AUTOINCREMENT: one more than the largest id the
\* table ever held
NextId(db) == Maximum(Ids(db) \cup {db.seq}) + 1

\* INSERT INTO applications: the branch of save_application for a new pair
insert_application(db, application, now) ==
    [database |-> [rows |-> db.rows \cup {Row(NextId(db), application, now)},
                   seq |-> NextId(db)],
     returned |-> NextId(db)]

\* a save that never looks for the pair
save_application_insert_only(db, application, now) == insert_application(db, application, now)

\* ApplicationDatabase.save_application: fetchone gives the first matching
\* row, the UPDATE rewrites every matching row
save_application(db, application, now) ==
    LET existing == Existing(db, application)
    IN  IF existing # {}
        THEN [database |->
                [rows |-> { IF row \in existing THEN Row(row.id, application, now) ELSE row :
                              row \in db.rows },
                 seq |-> db.seq],
              returned |-> CHOOSE id \in Ids([rows |-> existing]) :
                             \A other \in Ids([rows |-> existing]) : id <= other]
        ELSE insert_application(db, application, now)

\* ApplicationDatabase.get_application: a read, it leaves the store as it is
get_application(db, application_id) ==
    IF \E row \in db.rows : row.id = application_id
    THEN LET row == CHOOSE r \in db.rows : r.id = application_id
         IN  Some([row EXCEPT !.unmatched_skills = json_loads(row.unmatched_skills),
                              !.matched_skills = json_loads(row.matched_skills)])
    ELSE Nothing

\* ApplicationDatabase.delete_application
delete_application(db, application_id) ==
    [database |-> [rows |-> { row \in db.rows : row.id # application_id },
                   seq |-> db.seq],
     returned |-> \E row \in db.rows : row.id = application_id]

\* CURRENT_TIMESTAMP: the time of the call, counted in calls
Now == Len(db_calls) + 1

DbCall(op, application, id, returned) ==
    [op |-> op, application |-> application, id |-> id, returned |-> returned,
     before |-> database]

InitDatabase ==
    /\ component = "database"
    /\ IdleSubst
    /\ IdleSkills
    /\ IdleRender
    /\ IdleUtil
    /\ IdleApp

SaveApplication ==
    /\ component = "database"
    /\ Len(db_calls) < MaxDbCalls
    /\ \E application \in Applications :
         LET call == save_application(database, application, Now)
         IN  /\ database' = call.database
             /\ db_calls' = Append(db_calls, DbCall("save", application, None, call.returned))
    /\ UNCHANGED <<component, substVars, skillsVars, transVars, renderVars, utilVars, lookup,
                   ran, tracker, processed, files, threads>>

DeleteApplication ==
    /\ component = "database"
    /\ Len(db_calls) < MaxDbCalls
    /\ \E application_id \in 1..MaxDbCalls :
         LET call == delete_application(database, application_id)
         IN  /\ database' = call.database
             /\ db_calls' = Append(db_calls, DbCall("delete", None, application_id, call.returned))
    /\ UNCHANGED <<component, substVars, skillsVars, transVars, renderVars, utilVars, lookup,
                   ran, tracker, processed, files, threads>>

NextDatabase ==
    \/ SaveApplication
    \/ DeleteApplication

SpecDatabase == InitDatabase /\ [][NextDatabase]_vars

----------------------------------------------------------------------------
(* Properties of the application store *)

\* the store a call left behind
After(i) == IF i < Len(db_calls) THEN db_calls[i + 1].before ELSE database

\* the ids the table held at some time before call i
IdsBefore(i) == UNION { Ids(db_calls[j].before) : j \in 1..i }

\* an Application read back has the values of the one saved
SameValues(read, saved) ==
    /\ ~read.is_none
    /\ read.value.company = saved.company
    /\ read.value.position = saved.position
    /\ \A field \in ValueFields : read.value[field] = saved[field]

\* the saves of a pair, by their position in the sequence of calls
SavesOf(company, position) ==
    { i \in 1..Len(db_calls) :
        /\ db_calls[i].op = "save"
        /\ db_calls[i].application.company = company
        /\ db_calls[i].application.position = position }

\* C22: a save of a stored (company, position) pair returns the id of its
\* record and replaces the values, a save of another pair adds one record
\* under an id the table never held; so the store never holds two records of
\* one pair, and get_application of a stored record gives the values of the
\* last save of its pair.
C22_SaveIsUpsert ==
    /\ \A i \in 1..Len(db_calls) :
         LET call == db_calls[i]
             existing == Existing(call.before, call.application)
         IN  call.op = "save" =>
               /\ SameValues(get_application(After(i), call.returned), call.application)
               /\ IF existing # {}
                  THEN /\ call.returned \in Ids([rows |-> existing])
                       /\ Ids(After(i)) = Ids(call.before)
                  ELSE /\ call.returned \notin IdsBefore(i)
                       /\ Ids(After(i)) = Ids(call.before) \cup {call.returned}
               /\ \A row \in call.before.rows :
                    row \notin existing => row \in After(i).rows
    /\ \A row, other \in database.rows :
         row.company = other.company /\ row.position = other.position => row = other
    /\ \A row \in database.rows :
         /\ SavesOf(row.company, row.position) # {}
         /\ SameValues(get_application(database, row.id),
                       db_calls[Maximum(SavesOf(row.company, row.position))].application)

\* after a record was deleted, a pair was saved under an id the table had not
\* held and saved again with other values under the same id, and the record
\* reads back with the values of the second save
C22_Witness ==
    \E d, i, j \in 1..Len(db_calls) :
        /\ d < i /\ i < j
        /\ db_calls[d].op = "delete" /\ db_calls[d].returned
        /\ db_calls[i].op = "save" /\ db_calls[j].op = "save"
        /\ db_calls[i].returned = db_calls[j].returned
        /\ db_calls[i].returned > db_calls[d].id
        /\ db_calls[i].application # db_calls[j].application
        /\ SameValues(get_application(database, db_calls[j].returned),
                      db_calls[j].application)

----------------------------------------------------------------------------
(* The cost of an application: src/src/cost_tracker.py and                 *)
(* process_job_application of src/streamlit_app.py                         *)

\* process_job_application runs at most MaxRuns times in one process
MaxRuns == 3

\* CostTracker.PRICING["gpt-4.1-mini"], the model of every call of the
\* pipeline: the price of one token in hundred-millionths of a dollar
InputPrice == 40
OutputPrice == 160

\* CostTracker.calculate_cost
calculate_cost(prompt_tokens, completion_tokens) ==
    prompt_tokens * InputPrice + completion_tokens * OutputPrice

\* CostTracker.add_call on the calls of a tracker: the cost of the call is appended
add_call(tracked, usage) ==
    Append(tracked, calculate_cost(usage.prompt_tokens, usage.completion_tokens))

\* sum over a sequence of costs
RECURSIVE Sum(_)
Sum(costs) == IF costs = <<>> THEN 0 ELSE Head(costs) + Sum(Tail(costs))

\* CostTracker.total_cost
total_cost(tracked) == Sum(tracked)

\* response.usage of a call of the API
Usages ==
    { [prompt_tokens |-> 1000, completion_tokens |-> 100],
      [prompt_tokens |-> 2000, completion_tokens |-> 300] }

\* the job the parser extracts from the text, and the skills the matcher finds
JobOffers ==
    { [job_offer_text |-> "first text", company_name |-> "TestCorp",
       job_title |-> "AI Engineer", location |-> "Remote",
       skills_required |-> << <<"p">>, <<"a">> >>, matched |-> << <<"p">> >>],
      [job_offer_text |-> "updated text", company_name |-> "TestCorp",
       job_title |-> "Data Scientist", location |-> "Paris",
       skills_required |-> <<>>, matched |-> <<>>] }

\* how far a run gets: the call of the API in parse_job_offer, match_skills
\* or select_projects raises, or the run returns
Stages == <<"parse", "match", "select", "returned">>
StageOf(name) == CHOOSE i \in 1..Len(Stages) : Stages[i] = name

\* track_openai_call of each stage before the one that raises: one call of
\* the API a stage, added to the tracker of the process
TrackCalls(tracked, usage, stage) ==
    LET made == StageOf(stage) - 1
        F[n \in 0..made] == IF n = 0 THEN tracked ELSE add_call(F[n - 1], usage)
    IN  F[made]

\* list(set(job_offer.skills_required) - set(matched_skills.matched_skills))
Unmatched(job) ==
    SelectSeq(job.skills_required,
              LAMBDA skill : \A i \in 1..Len(job.matched) : job.matched[i] # skill)

\* the Application of process_job_application: language, cv_pdf and
\* cover_letter_pdf keep the defaults of the class
BuiltApplication(job, application_cost) ==
    Application(job.company_name, job.job_title,
        [matching_rate |->
            IF Len(job.skills_required) > 0
            THEN (Len(job.matched) * 100) \div Len(job.skills_required) ELSE 0,
         unmatched_skills |-> Unmatched(job),
         matched_skills |-> job.matched,
         location |-> job.location,
         job_offer_input |-> job.job_offer_text,
         application_cost |-> application_cost,
         language |-> "en", cv_pdf |-> None, cover_letter_pdf |-> None])

InitCosts ==
    /\ component = "application"
    /\ IdleSubst
    /\ IdleSkills
    /\ IdleRender
    /\ IdleUtil
    /\ IdleApp

\* one run of process_job_application. parse_job_offer is the parser the
\* caller is written for, which takes the keyword gender and makes the one
\* call of call_openai_for_parsing; the documents of process_templates are
\* returned and not stored.
ProcessJobApplication ==
    /\ component = "application"
    /\ Len(processed) < MaxRuns
    /\ \E job \in JobOffers, usage \in Usages, stage \in { Stages[i] : i \in 1..Len(Stages) } :
         LET tracked == TrackCalls(tracker, usage, stage)
             application_cost == total_cost(tracked)
             saved == save_application(database, BuiltApplication(job, application_cost),
                                       Len(processed) + 1)
             run == [job |-> job, stage |-> stage,
                     own_calls |-> SubSeq(tracked, Len(tracker) + 1, Len(tracked))]
         IN  /\ tracker' = tracked
             /\ IF stage = "returned"
                THEN /\ database' = saved.database
                     /\ processed' = Append(processed,
                           run @@ [application_cost |-> application_cost,
                                   application_id |-> saved.returned])
                ELSE /\ database' = database
                     /\ processed' = Append(processed,
                           run @@ [application_cost |-> 0, application_id |-> 0])
    /\ UNCHANGED <<component, substVars, skillsVars, transVars, renderVars, utilVars, lookup,
                   ran, db_calls, files, threads>>

NextCosts == ProcessJobApplication

SpecCosts == InitCosts /\ [][NextCosts]_vars

----------------------------------------------------------------------------
(* Properties of the cost of an application *)

----------------------------------------------------------------------------
(* process_templates of src/src/template_processor.py, and the calls of it  *)
(* that run at the same time on one TemplateProcessor                      *)

\* at most MaxThreads calls of process_templates are in flight
MaxThreads == 2

\* A template is given piece by piece: a piece is a stretch of HTML, a
\* placeholder in one of the three forms, or one of the English headers that
\* _translate_static_content looks for.
Html(text) == Lit(<<"html", text>>)
Placeholder(form, name) == Lit(<<"placeholder", form, name>>)
StaticText(english) == Lit(<<"static", english>>)

IsPlaceholder(piece) == piece.text[1] = "placeholder"
IsStaticText(piece) == piece.text[1] = "static"

\* the value a placeholder was replaced by, and the translation a header was
\* replaced by
Inserted(value) == Lit(<<"value", value>>)
Translated(value) == Lit(<<"translated", value>>)

\* re.IGNORECASE on the name of a placeholder, over the names of the model
FoldName(name) ==
    IF name \in {"JOB TITLE", "Job Title", "job title"} THEN "job title"
    ELSE IF name \in {"CV_SUMMARY", "cv_summary"} THEN "cv_summary"
    ELSE name

\* replace_placeholders on a template given piece by piece: a placeholder
\* whose name is a key of the dict, but for case, becomes the value of the
\* key; the values of the model hold no backslash and no placeholder, and no
\* two keys of a dict differ in case only
replace_placeholder_pieces(pieces, dict) ==
    [i \in 1..Len(pieces) |->
        IF IsPlaceholder(pieces[i])
           /\ \E key \in DOMAIN dict : FoldName(key) = FoldName(pieces[i].text[3])
        THEN Inserted(dict[CHOOSE key \in DOMAIN dict :
                              FoldName(key) = FoldName(pieces[i].text[3])])
        ELSE pieces[i]]

\* the key of the header an English text is replaced by
HeaderKey(english) ==
    IF english = "SUMMARY" THEN "summary_header" ELSE "skills_label"

\* _translate_static_content(html, language, section): translations.get(key,
\* english) in the place of each English header
translate_static_content(html, loader, lang, section) ==
    IF lang = "en" \/ ~loader.available THEN html
    ELSE LET translations == get_section_translations(loader.translations, lang, section)
         IN  IF translations.raised THEN html
             ELSE [i \in 1..Len(html) |->
                     IF IsStaticText(html[i])
                        /\ HeaderKey(html[i].text[2]) \in DOMAIN translations.value
                     THEN Translated(translations.value[HeaderKey(html[i].text[2])])
                     ELSE html[i]]

\* the template directory: the templates of test_process_templates_success,
\* templates with placeholders of the three forms and headers, and a
\* directory without the second file
TestCvTemplate ==
    <<Html("<html>"), Placeholder("comment", "JOB TITLE"), Html("</html>")>>
TestCoverTemplate ==
    <<Html("<html>"), Placeholder("comment", "Insert Company Name"), Html("</html>")>>
CvTemplate ==
    <<Placeholder("comment", "cv_summary"), StaticText("SUMMARY"),
      Placeholder("brace", "PROJECT 1 TITLE"), StaticText("Skills & Tools")>>
CoverTemplate ==
    <<Placeholder("bracket", "Company Name"), Placeholder("comment", "GREETING"),
      Placeholder("brace", "job title"), StaticText("SUMMARY")>>
TemplateFiles ==
    { [present |-> {"cv", "cover"}, cv |-> TestCvTemplate, cover |-> TestCoverTemplate],
      [present |-> {"cv", "cover"}, cv |-> CvTemplate, cover |-> CoverTemplate],
      [present |-> {"cv"}, cv |-> CvTemplate, cover |-> <<>>] }

\* the arguments of a call: the language of the job offer and the gender of
\* the profile; the other fields are the same texts for every call
Arguments ==
    { [language |-> "en", gender |-> "male"],
      [language |-> "es", gender |-> "female"] }
MatchedSkillsArgument == parse_skills_response(PlainResponse).value
ProfileSkillsArgument == Skills("profile", 1)

\* the local variables of a call, before its first statement
NoLocals ==
    [raised |-> FALSE, cv_template |-> <<>>, cover_letter_template |-> <<>>,
     translated_projects_obj |-> SelectedProjects,
     cv_replacements |-> <<>>, cover_letter_replacements |-> <<>>,
     cv_html |-> <<>>, cover_letter_html |-> <<>>]

\* the statements of process_templates, in order
ProcessStatements ==
    <<"load_cv", "load_cover", "projects", "cv_replacements", "cover_replacements",
      "replace_cv", "replace_cover", "static">>

\* load_template: the text of the file, or FileNotFoundError
load_template(locals, fs, name, variable) ==
    IF name \in fs.present
    THEN [locals EXCEPT ![variable] = fs[name]]
    ELSE [locals EXCEPT !.raised = TRUE]

\* one statement of process_templates on the local variables of the call
Exec(statement, locals, args, fs, loader) ==
    CASE statement = "load_cv" -> load_template(locals, fs, "cv", "cv_template")
      [] statement = "load_cover" ->
            load_template(locals, fs, "cover", "cover_letter_template")
      [] statement = "projects" ->
            IF args.language # "en"
            THEN [locals EXCEPT !.translated_projects_obj =
                    apply_project_translations(loader, SelectedProjects, args.language)]
            ELSE locals
      [] statement = "cv_replacements" ->
            [locals EXCEPT !.cv_replacements =
                generate_cv_replacements(MatchedSkillsArgument, ProfileSkillsArgument, loader,
                    args.gender, args.language,
                    IF args.language # "en" THEN locals.translated_projects_obj
                    ELSE SelectedProjects)]
      [] statement = "cover_replacements" ->
            [locals EXCEPT !.cover_letter_replacements =
                CoverReplacements(MatchedSkillsArgument, loader, args.gender, args.language)]
      [] statement = "replace_cv" ->
            [locals EXCEPT !.cv_html =
                replace_placeholder_pieces(locals.cv_template, locals.cv_replacements)]
      [] statement = "replace_cover" ->
            [locals EXCEPT !.cover_letter_html =
                replace_placeholder_pieces(locals.cover_letter_template,
                                           locals.cover_letter_replacements)]
      [] statement = "static" ->
            IF args.language # "en"
            THEN [locals EXCEPT
                    !.cv_html = translate_static_content(locals.cv_html, loader,
                                                         args.language, "cv"),
                    !.cover_letter_html =
                        translate_static_content(locals.cover_letter_html, loader,
                                                 args.language, "cover_letter")]
            ELSE locals

\* what a call gives its caller: the GeneratedContent, or the IOError that
\* stands for a template that is not there
NotReturned == [status |-> "none"]
IOError == [status |-> "raised"]
GeneratedContent(locals, args) ==
    [status |-> "returned",
     cv_html |-> locals.cv_html,
     cover_letter_html |-> locals.cover_letter_html,
     job_offer |-> [language |-> args.language, job_title |-> JobTitle,
                    company_name |-> CompanyName, location |-> Location],
     matched_skills |-> MatchedSkillsArgument,
     selected_projects |-> SelectedProjects]

\* the statements from the n-th on, run without another call in between
RECURSIVE RunFrom(_, _, _, _, _)
RunFrom(locals, n, args, fs, loader) ==
    IF n > Len(ProcessStatements) \/ locals.raised THEN locals
    ELSE RunFrom(Exec(ProcessStatements[n], locals, args, fs, loader), n + 1, args, fs, loader)

\* TemplateProcessor.process_templates
process_templates(args, fs, loader) ==
    LET locals == RunFrom(NoLocals, 1, args, fs, loader)
    IN  IF locals.raised THEN IOError ELSE GeneratedContent(locals, args)

\* a mutable attribute of the processor, in the place of the local variables
FrameOfProcessor(thread) == 1

\* the frame that holds the local variables of a call: its own
Frame(thread) == thread

\* the processor of a process: the templates on disk, the loader of
\* TemplateProcessor.__init__, and no call in flight
InitProcess ==
    /\ component = "process"
    /\ IdleSubst
    /\ IdleUtil
    /\ IdleSkills
    /\ \/ /\ files \in TemplateFiles
          /\ translation_loader = ProcessorLoader(Translations({}))
       \/ /\ files = [present |-> {"cv", "cover"}, cv |-> CvTemplate, cover |-> CoverTemplate]
          /\ translation_loader = NoLoader
    /\ resource = JsonResource(translation_loader.translations)
    /\ gender = "male"
    /\ language = "en"
    /\ cv_replacements = NoDict
    /\ cover_replacements = NoDict
    /\ lookup = NoCall
    /\ ran = {}
    /\ database = EmptyDatabase
    /\ db_calls = <<>>
    /\ tracker = <<>>
    /\ processed = <<>>
    /\ threads = [calls |-> [t \in 1..MaxThreads |->
                                [pc |-> 0, args |-> <<>>, returned |-> NotReturned]],
                  frames |-> [t \in 1..MaxThreads |-> NoLocals]]

\* a thread calls process_templates
Call(t) ==
    /\ component = "process"
    /\ threads.calls[t].pc = 0
    /\ \E args \in Arguments :
         threads' = [threads EXCEPT !.calls[t] = [pc |-> 1, args |-> args,
                                                  returned |-> NotReturned],
                                    !.frames[Frame(t)] = NoLocals]
    /\ UNCHANGED <<component, substVars, skillsVars, transVars, renderVars, utilVars, lookup,
                   ran, database, db_calls, tracker, processed, files>>

\* a thread runs the next statement of its call; a template that is not there
\* ends the call with IOError
Step(t) ==
    /\ component = "process"
    /\ threads.calls[t].pc \in 1..Len(ProcessStatements)
    /\ LET call == threads.calls[t]
           locals == Exec(ProcessStatements[call.pc], threads.frames[Frame(t)], call.args, files,
                          translation_loader)
       IN  threads' =
             [threads EXCEPT
                !.frames[Frame(t)] = locals,
                !.calls[t] = IF locals.raised
                             THEN [call EXCEPT !.pc = Len(ProcessStatements) + 2,
                                               !.returned = IOError]
                             ELSE [call EXCEPT !.pc = call.pc + 1]]
    /\ UNCHANGED <<component, substVars, skillsVars, transVars, renderVars, utilVars, lookup,
                   ran, database, db_calls, tracker, processed, files>>

\* a thread returns the GeneratedContent of its call
Return(t) ==
    /\ component = "process"
    /\ threads.calls[t].pc = Len(ProcessStatements) + 1
    /\ threads' =
         [threads EXCEPT
            !.calls[t].pc = Len(ProcessStatements) + 2,
            !.calls[t].returned =
                GeneratedContent(threads.frames[Frame(t)], threads.calls[t].args)]
    /\ UNCHANGED <<component, substVars, skillsVars, transVars, renderVars, utilVars, lookup,
                   ran, database, db_calls, tracker, processed, files>>

NextProcess ==
    \E t \in 1..MaxThreads :
        \/ Call(t)
        \/ Step(t)
        \/ Return(t)

SpecProcess == InitProcess /\ [][NextProcess]_vars

----------------------------------------------------------------------------
(* Properties of process_templates *)

Returns(t) == threads.calls[t].returned.status = "returned"

IsInserted(piece, value) == piece.text[1] = "value" /\ piece.text[2] = value

\* C21: in the cv_html a call returns, the job title stands where the CV
\* template has <!-- JOB TITLE -->, in the cover_letter_html the company name
\* stands where the cover-letter template has <!-- Insert Company Name -->,
\* and the record returned holds the job offer, the matched skills and the
\* selected projects of the call as they were passed.
C21_JobFieldsFilled ==
    \A t \in 1..MaxThreads :
        Returns(t) =>
            LET returned == threads.calls[t].returned
            IN  /\ \A i \in 1..Len(files.cv) :
                     files.cv[i].text = <<"placeholder", "comment", "JOB TITLE">>
                        => IsInserted(returned.cv_html[i], JobTitle)
                /\ \A i \in 1..Len(files.cover) :
                     files.cover[i].text = <<"placeholder", "comment", "Insert Company Name">>
                        => IsInserted(returned.cover_letter_html[i], CompanyName)
                /\ returned.job_offer.language = threads.calls[t].args.language
                /\ returned.matched_skills = MatchedSkillsArgument
                /\ returned.selected_projects = SelectedProjects

\* the local variables of a call that ran its first n statements alone
RECURSIVE AloneUpTo(_, _)
AloneUpTo(args, n) ==
    IF n = 0 THEN NoLocals
    ELSE Exec(ProcessStatements[n], AloneUpTo(args, n - 1), args, files, translation_loader)

\* C23: whatever the other calls on the processor do in between, the local
\* variables of a call are at every statement those of the call run alone,
\* a call returns what it returns when run alone, and the loaded dictionary
\* is the one that was loaded.
C23_RenderCallsDoNotInterfere ==
    /\ translation_loader.translations = resource.translations
    /\ \A t \in 1..MaxThreads :
         LET call == threads.calls[t]
             alone == process_templates(call.args, files, translation_loader)
         IN  /\ call.pc \in 1..(Len(ProcessStatements) + 1)
                  => threads.frames[Frame(t)] = AloneUpTo(call.args, call.pc - 1)
             /\ call.returned.status # "none"
                  => /\ call.returned.status = alone.status
                     /\ Returns(t) => call.returned = alone

\* two calls for jobs in different languages have both run every statement
\* while the other was in flight, and their documents differ
C23_Witness ==
    \E t, u \in 1..MaxThreads :
        /\ threads.calls[t].pc = Len(ProcessStatements) + 1
        /\ threads.calls[u].pc = Len(ProcessStatements) + 1
        /\ threads.calls[t].args.language = "en"
        /\ threads.calls[u].args.language = "es"
        /\ threads.frames[Frame(t)].cv_html # threads.frames[Frame(u)].cv_html
        /\ threads.frames[Frame(t)].cv_replacements
             # threads.frames[Frame(u)].cv_replacements

====
